---- MODULE Spec2Model ----
(***************************************************************************)
(* A model of the sprint planning engine of app/core/planner_engine.py:    *)
(* SprintPlanner.get_final_plan and the steps it runs in order             *)
(* (_calculate_sprint_capacity, _filter_tasks, _select_tasks,              *)
(* _analyze_and_balance).                                                  *)
(*                                                                         *)
(* Numbers.  The engine computes with Python floats.  The model computes   *)
(* with exact rationals held as scaled integers:                           *)
(*   - the member factors (availabilityFactor, reliabilityScore,           *)
(*     overloadRiskScore) are multiples of 1/FactorDen;                    *)
(*   - hours (capacities, loads, efforts) are held in units of             *)
(*     1/HourUnits hour, so every product of _calculate_sprint_capacity    *)
(*     is an integer;                                                      *)
(*   - round(x, k) is rounding to the nearest multiple of 10^-k, ties to   *)
(*     even (RoundDiv).  Python rounds the binary float nearest to the     *)
(*     exact value, so the two can differ by one unit of the last place    *)
(*     when the exact value is a tie; no comparison of the selection       *)
(*     step falls on such a tie for the members and tasks below.           *)
(* The weights W_* and the percentages are held in hundredths.             *)
(***************************************************************************)
EXTENDS Integers, Sequences, FiniteSets, TLC

\* ------------------------------------------------------------------------
\* Configuration constants of planner_engine.py (hundredths where fractional)
\* ------------------------------------------------------------------------
RELIABILITY_THRESHOLD == 50
SAFETY_BUFFER_PERCENT == 10
DEADLINE_URGENCY_DAYS == 5
OVERLOAD_PENALTY_THRESHOLD == 95
TASK_DEFAULT_EFFORT_HOURS == 8

W_RELIABILITY == 35
W_VELOCITY == 35
W_OVERLOAD == 15
W_AVAILABILITY == 15

W_URGENCY == 35
W_PRIORITY == 30
W_BUSINESS_VALUE == 15
W_COMPLEXITY == 10
W_DEPENDENCY_DEPTH == 5
W_DEADLINE_PRESSURE == 5

FAIRNESS_SLACK_HOURS == 2

\* ------------------------------------------------------------------------
\* Scales of the fixed-point representation
\* ------------------------------------------------------------------------
\* member factors are multiples of 1/FactorDen
FactorDen == 1 + 1
\* one hour is HourUnits units: FactorDen^3 (three fractional factors) * 100
\* (the safety buffer is a percentage)
HourUnits == FactorDen * FactorDen * FactorDen * 100
\* fair-share hours are rounded to 2 decimals: hundredths of an hour
CentiPerHour == 10 * 10
\* scores are rounded to 4 decimals
TenThousand == 100 * 100

\* the absent value of an optional string field (assignedTo)
None == "None"
\* an optional number (deadline, max_tasks_per_member) is a sequence of
\* length at most 1: <<>> is None

\* ------------------------------------------------------------------------
\* Arithmetic helpers
\* ------------------------------------------------------------------------
Max(a, b) == IF a >= b THEN a ELSE b

Min(a, b) == IF a <= b THEN a ELSE b

\* round(n / d) to the nearest integer, ties to even; d > 0
RoundDiv(n, d) ==
    LET q == n \div d
        r == n - q * d
    IN  IF 2 * r > d THEN q + 1
        ELSE IF 2 * r < d THEN q
        ELSE IF q % 2 = 0 THEN q ELSE q + 1

RECURSIVE SumSeq(_)
SumSeq(s) == IF s = <<>> THEN 0 ELSE Head(s) + SumSeq(Tail(s))

\* the elements of s that satisfy the membership set keep, in order
RECURSIVE SelectIn(_, _)
SelectIn(s, keep) ==
    IF s = <<>> THEN <<>>
    ELSE IF Head(s) \in keep THEN <<Head(s)>> \o SelectIn(Tail(s), keep)
    ELSE SelectIn(Tail(s), keep)

Range(s) == {s[i] : i \in DOMAIN s}

\* every ordering of a finite set as a sequence without repetition
Orderings(S) ==
    {s \in [1..Cardinality(S) -> S] : \A i, j \in 1..Cardinality(S) : i # j => s[i] # s[j]}

\* ------------------------------------------------------------------------
\* Helper functions of planner_engine.py
\* ------------------------------------------------------------------------
\* the estimate as given, without the default
_raw_estimated_effort(task) == task.estimatedHours

\* effort in whole hours
_get_corrected_effort(task) ==
    IF task.estimatedHours > 0 THEN task.estimatedHours ELSE TASK_DEFAULT_EFFORT_HOURS

\* days are offsets from the sprint start date; startWeekday is its weekday
\* (Monday = 0); the end date is inclusive
_calculate_working_days(startWeekday, endOffset, unavailable_dates) ==
    Cardinality({d \in 0..endOffset :
                    /\ (startWeekday + d) % 7 < 5
                    /\ d \notin unavailable_dates})

\* ------------------------------------------------------------------------
\* Inputs: the member and task records a request can carry
\* ------------------------------------------------------------------------
MaxMembers == 2
MaxTasks == 3

Member(id, rel, avail, skill, overload, vel, unavailable) ==
    [projectMemberId |-> id, reliabilityScore |-> rel, availabilityFactor |-> avail,
     skillEfficiencyMultiplier |-> skill, overloadRiskScore |-> overload,
     velocity |-> vel, unavailableDates |-> unavailable]

\* reliabilityScore, availabilityFactor and overloadRiskScore in units of
\* 1/FactorDen.  ProjectMember declares them as unconstrained floats: m4 and
\* m5 carry an overloadRiskScore above 1.  m0 comes first in the input and
\* has the reliabilityScore of m1, m3 and m4 with a lower availabilityFactor.
MemberRoster ==
    << Member("m0", 2, 1, 1, 0, 2, {}),
       Member("m1", 2, 2, 1, 0, 0, {0, 1}),
       Member("m2", 1, 2, 2, 0, 2, {}),
       Member("m3", 2, 2, 1, 0, 3, {}),
       Member("m4", 2, 2, 1, 3, 3, {}),
       Member("m5", 1, 2, 1, 3, 1, {}) >>

Task(id, status, hours, priority, assignee, deps, deadline) ==
    [taskId |-> id, status |-> status, estimatedHours |-> hours, priority |-> priority,
     assignedTo |-> assignee, dependencies |-> deps, deadline |-> deadline,
     \* planner-attached fields: Task.eligibility_reason defaults to
     \* "Unprocessed"; _assignee_id_resolved and _priority_score are read with
     \* getattr defaults None and 0.0
     eligibility_reason |-> "Unprocessed", _assignee_id_resolved |-> None,
     _priority_score |-> 0]

\* deadline: <<>> or <<days after the sprint start date>>
TaskBacklog ==
    << Task("t1", "Done", 8, "Medium", None, <<>>, <<>>),
       Task("t2", "Backlog", 8, "Low", None, <<"t1">>, <<10>>),
       Task("t3", "Backlog", 8, "High", None, <<>>, <<3>>),
       Task("t4", "Open", 0, "Medium", None, <<>>, <<>>),
       Task("t5", "Backlog", 8, "High", None, <<"t3", "t0">>, <<>>),
       Task("t6", "Backlog", 60, "Critical", None, <<>>, <<>>),
       Task("t7", "Backlog", 100, "High", "m1", <<>>, <<30>>),
       Task("t8", "Backlog", 60, "Medium", "m1", <<>>, <<>>),
       Task("t9", "Backlog", 8, "Low", "m4", <<>>, <<>>),
       Task("t10", "Backlog", 8, "Medium", None, <<>>, <<>>),
       Task("t11", "Backlog", 90, "Low", None, <<>>, <<>>) >>

\* the non-empty subsequences of s of length at most n
SubSeqs(s, n) ==
    {SelectIn(s, {s[i] : i \in I}) :
        I \in {J \in SUBSET DOMAIN s : J # {} /\ Cardinality(J) <= n}}

\* sprint_config (sprintLengthDays, workHoursPerDay), the weekday of
\* date.today() and the max_tasks_per_member argument of plan_single_sprint
SprintConfigs ==
    { [sprintLengthDays |-> 14, workHoursPerDay |-> 8, startWeekday |-> 0,
       max_tasks_per_member |-> <<>>],
      [sprintLengthDays |-> 14, workHoursPerDay |-> 8, startWeekday |-> 5,
       max_tasks_per_member |-> <<2>>] }

\* ------------------------------------------------------------------------
\* State
\* ------------------------------------------------------------------------
VARIABLES
    pc,                            \* position in get_final_plan
    members,                       \* self.members, in insertion order
    tasks,                         \* self.tasks, in insertion order
    sprint_config,
    total_team_capacity,
    member_capacities,
    effective_max_tasks,           \* member.effective_max_tasks
    member_current_load,
    member_task_count,
    member_fairness_score,
    member_normalized_fair_share,
    member_fair_share_hours,
    selected_tasks,
    deferred_tasks,
    recommendations,
    risk_analysis,
    kpis,
    \* locals of get_final_plan and _select_tasks
    eligible_tasks,
    tasks_by_assignee,
    unassigned_tasks,
    selected_task_ids,
    sorted_members,
    member_index,
    \* the plans returned so far, oldest first
    plans,
    \* the SprintPlanner objects of the other requests of the process, each
    \* with its own attributes (empty while one request is served at a time)
    parked,
    \* the locals of fetch_with_retry and what it has done so far
    fetch,
    \* the calls of _dependency_depth in progress, their shared visited set
    \* and the depths returned so far
    traversal

vars == <<pc, members, tasks, sprint_config, total_team_capacity, member_capacities,
          effective_max_tasks, member_current_load, member_task_count,
          member_fairness_score, member_normalized_fair_share, member_fair_share_hours,
          selected_tasks, deferred_tasks, recommendations, risk_analysis, kpis,
          eligible_tasks, tasks_by_assignee, unassigned_tasks, selected_task_ids,
          sorted_members, member_index, plans, parked, fetch, traversal>>

inputVars == <<members, tasks, sprint_config>>

MemberIds == {members[i].projectMemberId : i \in DOMAIN members}

TaskIds == {tasks[i].taskId : i \in DOMAIN tasks}

MemberById(mid) == members[CHOOSE i \in DOMAIN members : members[i].projectMemberId = mid]

TaskById(tid) == tasks[CHOOSE i \in DOMAIN tasks : tasks[i].taskId = tid]

\* fetch_with_retry has not been called: delay = 1, no attempt made
NoFetch == [state |-> "idle", attempt |-> 0, delay |-> 1, posts |-> 0, sleeps |-> <<>>]

\* _dependency_depth has not been called
NoTraversal == [state |-> "idle", stack |-> <<>>, visited |-> {}, expanded |-> <<>>,
                results |-> <<>>]

\* SprintPlanner.__init__: the trackers of a fresh planner
PlannerInit ==
    /\ pc = "capacity"
    /\ total_team_capacity = 0
    /\ member_capacities = <<>>
    /\ effective_max_tasks = <<>>
    /\ member_current_load = [mid \in MemberIds |-> 0]
    /\ member_task_count = [mid \in MemberIds |-> 0]
    /\ member_fairness_score = <<>>
    /\ member_normalized_fair_share = <<>>
    /\ member_fair_share_hours = <<>>
    /\ selected_tasks = <<>>
    /\ deferred_tasks = <<>>
    /\ recommendations = <<>>
    /\ risk_analysis = <<>>
    /\ kpis = <<>>
    /\ eligible_tasks = <<>>
    /\ tasks_by_assignee = <<>>
    /\ unassigned_tasks = <<>>
    /\ selected_task_ids = {}
    /\ sorted_members = <<>>
    /\ member_index = 0

Init ==
    /\ members \in SubSeqs(MemberRoster, MaxMembers)
    /\ tasks \in SubSeqs(TaskBacklog, MaxTasks)
    /\ sprint_config \in SprintConfigs
    /\ plans = <<>>
    /\ parked = <<>>
    /\ fetch = NoFetch
    /\ traversal = NoTraversal
    /\ PlannerInit

\* ------------------------------------------------------------------------
\* 1. Sprint capacity
\* ------------------------------------------------------------------------
\* member_capacity before the floor, in 1/HourUnits hour:
\* working_days * work_hours_per_day * availability * reliability * skill
\* * (1 - overload) * (1 - SAFETY_BUFFER_PERCENT)
MemberCapacityRaw(m, cfg) ==
    LET working_days == _calculate_working_days(cfg.startWeekday, cfg.sprintLengthDays,
                                                m.unavailableDates)
        base_sprint_hours == working_days * cfg.workHoursPerDay
    IN  base_sprint_hours * m.availabilityFactor * m.reliabilityScore
          * m.skillEfficiencyMultiplier * (FactorDen - m.overloadRiskScore)
          * (100 - SAFETY_BUFFER_PERCENT)

\* member.sprintCapacityHours = max(0.0, member_capacity)
StoredCapacity(m, cfg) == Max(0, MemberCapacityRaw(m, cfg))

\* self.total_team_capacity += member_capacity, over the members
TotalTeamCapacity(ms, cfg) ==
    SumSeq([i \in DOMAIN ms |-> MemberCapacityRaw(ms[i], cfg)])

EffectiveMaxTasks(cfg) ==
    IF cfg.max_tasks_per_member # <<>> /\ cfg.max_tasks_per_member[1] > 0
    THEN cfg.max_tasks_per_member[1] ELSE 1

_calculate_sprint_capacity ==
    /\ pc = "capacity"
    /\ member_capacities' = [mid \in MemberIds |-> StoredCapacity(MemberById(mid), sprint_config)]
    /\ total_team_capacity' = TotalTeamCapacity(members, sprint_config)
    /\ effective_max_tasks' = [mid \in MemberIds |-> EffectiveMaxTasks(sprint_config)]
    /\ pc' = "filter"
    /\ UNCHANGED <<inputVars, member_current_load, member_task_count,
                   member_fairness_score, member_normalized_fair_share,
                   member_fair_share_hours, selected_tasks, deferred_tasks,
                   recommendations, risk_analysis, kpis, eligible_tasks,
                   tasks_by_assignee, unassigned_tasks, selected_task_ids,
                   sorted_members, member_index, plans>>
    /\ UNCHANGED <<parked, fetch, traversal>>

\* ------------------------------------------------------------------------
\* Fairness (_compute_member_fairness)
\* ------------------------------------------------------------------------
SumVelocity(ms) == SumSeq([i \in DOMAIN ms |-> ms[i].velocity])

\* the denominator the raw scores of a team share: a raw score is
\* RawScoreNum / (FactorDen * 100 * VelDen)
VelDen(ms) == IF SumVelocity(ms) > 0 THEN SumVelocity(ms) ELSE 1

\* max(0.0, raw), raw = rel*W_RELIABILITY + vel_component*W_VELOCITY
\*                      + (1 - overload)*W_OVERLOAD + avail*W_AVAILABILITY
\* with vel_component = vel / avg_velocity if avg_velocity > 0 else 1.0
\* and avg_velocity = sum(velocities) / len(velocities)
RawScoreNum(m, ms) ==
    LET vel_component_num ==
            IF SumVelocity(ms) > 0 THEN m.velocity * Len(ms) ELSE 1
    IN  Max(0, (m.reliabilityScore * W_RELIABILITY
                  + (FactorDen - m.overloadRiskScore) * W_OVERLOAD
                  + m.availabilityFactor * W_AVAILABILITY) * VelDen(ms)
               + vel_component_num * W_VELOCITY * FactorDen)

TotalRawNum(ms) == SumSeq([i \in DOMAIN ms |-> RawScoreNum(ms[i], ms)])

\* units of 1/HourUnits hour in one hundredth of an hour
CentiUnits == HourUnits \div CentiPerHour

\* round(frac * total_team_capacity, 2) in hundredths of an hour, with
\* frac = raw / (sum(raw_scores) or 1.0)
FairShareHours(m, ms, total_capacity) ==
    IF TotalRawNum(ms) = 0 THEN 0
    ELSE RoundDiv(RawScoreNum(m, ms) * total_capacity, TotalRawNum(ms) * CentiUnits)

\* round(raw, 4) in ten-thousandths
FairnessScore(m, ms) == RoundDiv(RawScoreNum(m, ms) * 100, FactorDen * VelDen(ms))

\* round(frac, 4) in ten-thousandths
NormalizedFairShare(m, ms) ==
    IF TotalRawNum(ms) = 0 THEN 0
    ELSE RoundDiv(RawScoreNum(m, ms) * TenThousand, TotalRawNum(ms))

\* ------------------------------------------------------------------------
\* Dependency depth (_dependency_depth): depth-first, one visited set shared
\* by the whole traversal
\* ------------------------------------------------------------------------
HasTask(ts, tid) == \E i \in DOMAIN ts : ts[i].taskId = tid

GetTask(ts, tid) == ts[CHOOSE i \in DOMAIN ts : ts[i].taskId = tid]

\* a traversal that forgets the ids it has seen
NeverVisited(visited, dep) == {}

\* visited.add(dep)
Visit(visited, dep) == visited \cup {dep}

\* the loop over deps[i..], with the visited set and the depth so far;
\* the result is the depth and the visited set after the loop
RECURSIVE DepthLoop(_, _, _, _, _)
DepthLoop(ts, deps, i, visited, depth) ==
    IF i > Len(deps) THEN [depth |-> depth, visited |-> visited]
    ELSE LET dep == deps[i] IN
         IF dep \in visited THEN DepthLoop(ts, deps, i + 1, visited, depth)
         ELSE IF HasTask(ts, dep)
              THEN LET sub == DepthLoop(ts, GetTask(ts, dep).dependencies, 1,
                                        Visit(visited, dep), 0)
                   IN  DepthLoop(ts, deps, i + 1, sub.visited, Max(depth, 1 + sub.depth))
              ELSE DepthLoop(ts, deps, i + 1, Visit(visited, dep), Max(depth, 1))

_dependency_depth(ts, task) == DepthLoop(ts, task.dependencies, 1, {}, 0).depth

\* ------------------------------------------------------------------------
\* 2. Eligibility filter (_filter_tasks)
\* ------------------------------------------------------------------------
CompletedTaskIds(ts) ==
    {ts[i].taskId : i \in {j \in DOMAIN ts : ts[j].status \in {"Done", "Completed"}}}

\* the unmet dependencies among the ids the task list knows
BlockedDepsAmongKnown(ts, task) ==
    SelectSeq(task.dependencies,
              LAMBDA d : HasTask(ts, d) /\ d \notin CompletedTaskIds(ts))

BlockedDeps(ts, task) ==
    SelectSeq(task.dependencies, LAMBDA d : d \notin CompletedTaskIds(ts))

\* what the loop body does with one task
FilterOutcome(ts, mids, task) ==
    IF task.status \notin {"Backlog", "Open"} THEN "skipped"
    ELSE IF BlockedDeps(ts, task) # <<>> THEN "blocked"
    ELSE IF task.assignedTo # None /\ task.assignedTo \notin mids THEN "unknown_member"
    ELSE "eligible"

\* the deferred entry the filter appends for a task it defers
FilterDeferredEntry(ts, task) ==
    IF BlockedDeps(ts, task) # <<>>
    THEN [taskId |-> task.taskId,
          reason |-> [kind |-> "BlockedByDependency",
                      blocked_deps |-> BlockedDeps(ts, task),
                      count |-> Len(BlockedDeps(ts, task))]]
    ELSE [taskId |-> task.taskId,
          reason |-> [kind |-> "UnknownMember", assignee |-> task.assignedTo]]

\* the fields the filter attaches to a task
FilterAttach(ts, mids, task) ==
    LET outcome == FilterOutcome(ts, mids, task) IN
    IF outcome \in {"skipped", "blocked"} THEN task
    ELSE IF outcome = "unknown_member"
    THEN [task EXCEPT !._assignee_id_resolved = task.assignedTo]
    ELSE [task EXCEPT !._assignee_id_resolved = task.assignedTo,
                      !.eligibility_reason =
                          IF task.deadline # <<>> /\ task.deadline[1] <= DEADLINE_URGENCY_DAYS
                          THEN "Eligible + Deadline-Critical" ELSE ""]

\* the positions of ts whose task has one of the outcomes, in order
WithOutcome(ts, mids, outcomes) ==
    SelectSeq([i \in DOMAIN ts |-> i],
              LAMBDA i : FilterOutcome(ts, mids, ts[i]) \in outcomes)

_filter_tasks ==
    /\ pc = "filter"
    /\ LET deferred == WithOutcome(tasks, MemberIds, {"blocked", "unknown_member"})
           eligible == WithOutcome(tasks, MemberIds, {"eligible"})
       IN  /\ deferred_tasks' = deferred_tasks \o
                  [k \in DOMAIN deferred |-> FilterDeferredEntry(tasks, tasks[deferred[k]])]
           /\ eligible_tasks' = [k \in DOMAIN eligible |-> tasks[eligible[k]].taskId]
    /\ tasks' = [i \in DOMAIN tasks |-> FilterAttach(tasks, MemberIds, tasks[i])]
    /\ pc' = "select"
    /\ UNCHANGED <<members, sprint_config, total_team_capacity, member_capacities,
                   effective_max_tasks, member_current_load, member_task_count,
                   member_fairness_score, member_normalized_fair_share,
                   member_fair_share_hours, selected_tasks, recommendations,
                   risk_analysis, kpis, tasks_by_assignee, unassigned_tasks,
                   selected_task_ids, sorted_members, member_index, plans>>
    /\ UNCHANGED <<parked, fetch, traversal>>

\* ------------------------------------------------------------------------
\* Priority score (_compute_task_priority_score), in ten-thousandths
\* ------------------------------------------------------------------------
PriorityValue(priority) ==
    CASE priority = "High" -> 3
      [] priority = "Medium" -> 2
      [] priority = "Low" -> 1
      [] OTHER -> 1

\* Task has no businessValue and no complexity field: getattr yields the
\* defaults, bv = 0 and cval = complexity_map.get(None, 2) = 2
_compute_task_priority_score(ts, task) ==
    LET pval == PriorityValue(task.priority)
        bv == 0
        cval == 2
        has_deadline == task.deadline # <<>>
        days == IF has_deadline THEN Max(0, task.deadline[1]) ELSE 0
        critical == IF task.eligibility_reason = "Eligible + Deadline-Critical" THEN 1 ELSE 0
        dep_depth == _dependency_depth(ts, task)
        \* the sum over the common denominator 3 * 5 * (bv + 1) * (days + 1)
        den == 3 * 5 * (bv + 1) * (days + 1)
        num == W_PRIORITY * pval * 5 * (bv + 1) * (days + 1)
               + W_BUSINESS_VALUE * bv * 3 * 5 * (days + 1)
               + W_URGENCY * critical * 3 * 5 * (bv + 1) * (days + 1)
               + W_COMPLEXITY * (3 - cval) * 5 * (bv + 1) * (days + 1)
               + W_DEPENDENCY_DEPTH * Min(5, dep_depth) * 3 * (bv + 1) * (days + 1)
               + (IF has_deadline THEN W_DEADLINE_PRESSURE * 3 * 5 * (bv + 1) ELSE 0)
    IN  RoundDiv(num * TenThousand, den)

\* ------------------------------------------------------------------------
\* 3. Selection (_select_tasks)
\* ------------------------------------------------------------------------
\* list.sort(key, reverse=True) and sorted(..., reverse=True): descending,
\* equal keys keep their relative order.  greater is the set of the pairs
\* <<i, j>> of positions of s such that the key of s[i] is strictly greater
\* than the key of s[j].
StableSortDesc(s, greater) ==
    LET before(i, j) == \/ <<i, j>> \in greater
                        \/ (<<j, i>> \notin greater /\ i < j)
        rank(i) == 1 + Cardinality({j \in DOMAIN s : before(j, i)})
    IN  [k \in DOMAIN s |-> s[CHOOSE i \in DOMAIN s : rank(i) = k]]

\* the comparison of an ascending sort
ScoreLess(ts, a, b) == GetTask(ts, a)._priority_score < GetTask(ts, b)._priority_score

ScoreGreater(ts, a, b) == GetTask(ts, a)._priority_score > GetTask(ts, b)._priority_score

\* the key reliabilityScore alone
MemberKeyByReliability(a, b) == a.reliabilityScore > b.reliabilityScore

\* the key (reliabilityScore, availabilityFactor), compared as a tuple
MemberKeyGreater(a, b) ==
    \/ a.reliabilityScore > b.reliabilityScore
    \/ /\ a.reliabilityScore = b.reliabilityScore
       /\ a.availabilityFactor > b.availabilityFactor

\* the pairs of positions of a list of task ids ordered by ScoreGreater
ScorePairs(ts, list) ==
    {p \in (DOMAIN list) \X (DOMAIN list) : ScoreGreater(ts, list[p[1]], list[p[2]])}

\* the pairs of positions of a list of members ordered by MemberKeyGreater
MemberKeyPairs(ms) ==
    {p \in (DOMAIN ms) \X (DOMAIN ms) : MemberKeyGreater(ms[p[1]], ms[p[2]])}

\* the assignee ids of the eligible tasks in order of first appearance
RECURSIVE FirstAppearance(_, _)
FirstAppearance(s, seen) ==
    IF s = <<>> THEN <<>>
    ELSE IF Head(s) \in seen THEN FirstAppearance(Tail(s), seen)
    ELSE <<Head(s)>> \o FirstAppearance(Tail(s), seen \cup {Head(s)})

\* a loop that goes over the sorted members a second time
VisitOrderTwoPasses(ms) ==
    LET sorted == StableSortDesc(ms, MemberKeyPairs(ms))
    IN  [k \in DOMAIN sorted |-> sorted[k].projectMemberId]
            \o [k \in DOMAIN sorted |-> sorted[k].projectMemberId]

\* for member in sorted_members: the ids in the order of the one pass
VisitOrder(ms) ==
    LET sorted == StableSortDesc(ms, MemberKeyPairs(ms))
    IN  [k \in DOMAIN sorted |-> sorted[k].projectMemberId]

\* _select_tasks up to the member loop: fairness, grouping, scoring, sorting
SelectPrepare ==
    /\ pc = "select"
    /\ member_fairness_score' =
           [mid \in MemberIds |-> FairnessScore(MemberById(mid), members)]
    /\ member_normalized_fair_share' =
           [mid \in MemberIds |-> NormalizedFairShare(MemberById(mid), members)]
    /\ member_fair_share_hours' =
           [mid \in MemberIds |-> FairShareHours(MemberById(mid), members, total_team_capacity)]
    /\ LET scored == [i \in DOMAIN tasks |->
                        IF tasks[i].taskId \in Range(eligible_tasks)
                        THEN [tasks[i] EXCEPT !._priority_score =
                                 _compute_task_priority_score(tasks, tasks[i])]
                        ELSE tasks[i]]
           unassigned == SelectSeq(eligible_tasks,
                            LAMBDA t : GetTask(tasks, t)._assignee_id_resolved = None)
           assigned == SelectSeq(eligible_tasks,
                            LAMBDA t : GetTask(tasks, t)._assignee_id_resolved # None)
           keys == FirstAppearance(
                      [k \in DOMAIN assigned |-> GetTask(tasks, assigned[k])._assignee_id_resolved],
                      {})
           bucket(mid) == SelectSeq(assigned,
                            LAMBDA t : GetTask(tasks, t)._assignee_id_resolved = mid)
       IN  /\ tasks' = scored
           /\ unassigned_tasks' =
                  StableSortDesc(unassigned, ScorePairs(scored, unassigned))
           /\ tasks_by_assignee' =
                  [k \in DOMAIN keys |->
                      [mid |-> keys[k],
                       tasks |-> StableSortDesc(bucket(keys[k]),
                                                ScorePairs(scored, bucket(keys[k])))]]
    /\ selected_task_ids' = {}
    /\ sorted_members' = VisitOrder(members)
    /\ member_index' = 1
    /\ pc' = "member_loop"
    /\ UNCHANGED <<members, sprint_config, total_team_capacity, member_capacities,
                   effective_max_tasks, member_current_load, member_task_count,
                   selected_tasks, deferred_tasks, recommendations, risk_analysis,
                   kpis, eligible_tasks, plans>>
    /\ UNCHANGED <<parked, fetch, traversal>>

\* the first task of a sorted list that is not selected yet: <<>> or <<id>>
FirstUnselected(list, selected_ids) ==
    LET free == SelectSeq(list, LAMBDA t : t \notin selected_ids)
    IN  IF free = <<>> THEN <<>> ELSE <<Head(free)>>

\* the first bucket there is, whoever its tasks are assigned to
BucketOfAnyMember(by_assignee, mid) ==
    IF by_assignee = <<>> THEN <<>> ELSE Head(by_assignee).tasks

\* tasks_by_assignee.get(member_id, [])
Bucket(by_assignee, mid) ==
    LET hit == SelectSeq(by_assignee, LAMBDA b : b.mid = mid)
    IN  IF hit = <<>> THEN <<>> ELSE Head(hit).tasks

\* the unassigned pool first, then the member's pre-assigned bucket
BestTaskPoolFirst(mid, by_assignee, unassigned, selected_ids) ==
    LET pool == FirstUnselected(unassigned, selected_ids)
    IN  IF pool # <<>> THEN pool ELSE FirstUnselected(Bucket(by_assignee, mid), selected_ids)

\* 3A then 3B: the member's pre-assigned bucket, then the unassigned pool
BestTask(mid, by_assignee, unassigned, selected_ids) ==
    LET own == FirstUnselected(Bucket(by_assignee, mid), selected_ids)
    IN  IF own # <<>> THEN own ELSE FirstUnselected(unassigned, selected_ids)

\* a capacity check that never rejects
CapacityNeverExceeded(remaining_capacity, effort) == FALSE

\* the capacity check `remaining_capacity < task_effort`, both in
\* 1/HourUnits hour
CapacityExceeded(remaining_capacity, effort) == remaining_capacity < effort

\* a fairness check that lets every candidate through
FairnessNeverExceeded(planned_after, threshold) == FALSE

\* planned_after > allowed_threshold, and for an unassigned task
\* planned_after > fair_share + FAIRNESS_SLACK_HOURS * 2
FairnessExceeded(planned_after, threshold) == planned_after > threshold

\* One iteration of `for member in sorted_members`, as the changes it makes:
\* the entries appended to selected_tasks, deferred_tasks and recommendations
\* and the effort added to the member's load (hours; 0 when nothing is
\* assigned).
MemberVisit(mid) ==
    LET nothing == [selected |-> <<>>, deferred |-> <<>>, recommended |-> <<>>, effort |-> 0]
        best == BestTask(mid, tasks_by_assignee, unassigned_tasks, selected_task_ids)
    IN
    IF member_capacities[mid] <= 0
    THEN [nothing EXCEPT !.recommended = <<[kind |-> "ZeroCapacity", member |-> mid]>>]
    ELSE IF member_task_count[mid] >= effective_max_tasks[mid]
    THEN nothing
    ELSE IF best = <<>>
    THEN [nothing EXCEPT !.recommended = <<[kind |-> "CapacityUnused", member |-> mid]>>]
    ELSE
    LET best_task == GetTask(tasks, best[1])
        task_effort == _get_corrected_effort(best_task)
        remaining_capacity == member_capacities[mid] - member_current_load[mid]
        planned_after == member_current_load[mid] + task_effort * HourUnits
        fair_share == member_fair_share_hours[mid]
        allowed_threshold == fair_share * CentiUnits + FAIRNESS_SLACK_HOURS * HourUnits
        pre_assigned_to_member ==
            best_task._assignee_id_resolved = mid /\ best_task.assignedTo # None
    IN
    IF CapacityExceeded(remaining_capacity, task_effort * HourUnits)
    THEN LET reason_detail == [kind |-> "CapacityViolation", member |-> mid,
                               remaining_capacity |-> remaining_capacity,
                               task_effort |-> task_effort]
         IN  [nothing EXCEPT
                 !.recommended = <<reason_detail>>,
                 !.deferred = IF best_task.assignedTo # None
                              THEN <<[taskId |-> best_task.taskId, reason |-> reason_detail]>>
                              ELSE <<>>]
    ELSE IF pre_assigned_to_member /\ FairnessExceeded(planned_after, allowed_threshold)
    THEN [nothing EXCEPT
             !.deferred = <<[taskId |-> best_task.taskId,
                             reason |-> [kind |-> "FairnessLimit", member |-> mid,
                                         planned_after |-> planned_after,
                                         fair_share |-> fair_share,
                                         fairness_score |-> member_fairness_score[mid]]]>>]
    ELSE IF ~pre_assigned_to_member
            /\ FairnessExceeded(planned_after,
                   fair_share * CentiUnits + FAIRNESS_SLACK_HOURS * 2 * HourUnits)
    THEN [nothing EXCEPT
             !.deferred = <<[taskId |-> best_task.taskId,
                             reason |-> [kind |-> "FairnessLimitUnassigned", member |-> mid,
                                         planned_after |-> planned_after,
                                         fair_share |-> fair_share]]>>]
    ELSE [nothing EXCEPT
             !.effort = task_effort,
             !.selected = <<[taskId |-> best_task.taskId,
                             estimatedHours |-> task_effort,
                             assignedTo |-> mid,
                             reason |-> [pre_assigned |-> pre_assigned_to_member,
                                         priority_score |-> best_task._priority_score,
                                         deadline_critical |->
                                             best_task.eligibility_reason
                                                 = "Eligible + Deadline-Critical",
                                         task_effort |-> task_effort,
                                         remaining_capacity |-> remaining_capacity,
                                         fair_share |-> fair_share,
                                         fairness_score |-> member_fairness_score[mid]]]>>]

\* the body of the member loop for sorted_members[member_index]
MemberStep ==
    /\ pc = "member_loop"
    /\ member_index <= Len(sorted_members)
    /\ LET mid == sorted_members[member_index]
           visit == MemberVisit(mid)
       IN  /\ selected_tasks' = selected_tasks \o visit.selected
           /\ deferred_tasks' = deferred_tasks \o visit.deferred
           /\ recommendations' = recommendations \o visit.recommended
           /\ member_current_load' =
                  [member_current_load EXCEPT ![mid] = @ + visit.effort * HourUnits]
           /\ member_task_count' =
                  [member_task_count EXCEPT ![mid] = @ + Len(visit.selected)]
           /\ selected_task_ids' =
                  selected_task_ids \cup {visit.selected[k].taskId : k \in DOMAIN visit.selected}
    /\ member_index' = member_index + 1
    /\ UNCHANGED <<inputVars, pc, total_team_capacity, member_capacities,
                   effective_max_tasks, member_fairness_score,
                   member_normalized_fair_share, member_fair_share_hours,
                   risk_analysis, kpis, eligible_tasks, tasks_by_assignee,
                   unassigned_tasks, sorted_members, plans>>
    /\ UNCHANGED <<parked, fetch, traversal>>

\* a sweep that appends its entry with no reason text
SweepEntryNoReason(task) == [taskId |-> task.taskId, reason |-> [kind |-> ""]]

\* 4. after the loop: defer every task that is neither selected nor deferred
\* so far, the pre-assigned buckets first, then the unassigned pool
RECURSIVE Flatten(_)
Flatten(ss) == IF ss = <<>> THEN <<>> ELSE Head(ss) \o Flatten(Tail(ss))

SweepEntry(task) ==
    IF task._assignee_id_resolved # None
    THEN [taskId |-> task.taskId,
          reason |-> [kind |-> "NotSelectedAssigned", assignee |-> task._assignee_id_resolved]]
    ELSE [taskId |-> task.taskId, reason |-> [kind |-> "NotSelectedUnassigned"]]

DeferRemaining ==
    /\ pc = "member_loop"
    /\ member_index > Len(sorted_members)
    /\ LET deferred_ids == {deferred_tasks[k].taskId : k \in DOMAIN deferred_tasks}
           order == Flatten([k \in DOMAIN tasks_by_assignee |-> tasks_by_assignee[k].tasks])
                        \o unassigned_tasks
           left == SelectSeq(order,
                      LAMBDA t : t \notin selected_task_ids /\ t \notin deferred_ids)
       IN  deferred_tasks' = deferred_tasks \o
               [k \in DOMAIN left |-> SweepEntry(GetTask(tasks, left[k]))]
    /\ pc' = "analyze"
    /\ UNCHANGED <<inputVars, total_team_capacity, member_capacities,
                   effective_max_tasks, member_current_load, member_task_count,
                   member_fairness_score, member_normalized_fair_share,
                   member_fair_share_hours, selected_tasks, recommendations,
                   risk_analysis, kpis, eligible_tasks, tasks_by_assignee,
                   unassigned_tasks, selected_task_ids, sorted_members, member_index,
                   plans>>
    /\ UNCHANGED <<parked, fetch, traversal>>

\* the text every reason string begins with: the literal text of its
\* f-string before the first inserted value
ReasonText(reason) ==
    CASE reason.kind = "BlockedByDependency" -> "Blocked by dependency(ies): "
      [] reason.kind = "UnknownMember" -> "Assigned to unknown member ID: "
      [] reason.kind = "CapacityViolation" -> "CAPACITY VIOLATION: Member "
      [] reason.kind = "FairnessLimit" -> "FAIRNESS LIMIT: Task is pre-assigned to "
      [] reason.kind = "FairnessLimitUnassigned" ->
             "FAIRNESS LIMIT (UNASSIGNED): Including this unassigned task would push "
      [] reason.kind = "NotSelectedAssigned" -> "Deferred: Task is assigned to "
      [] reason.kind = "NotSelectedUnassigned" ->
             "Deferred (Unassigned): No member selected this unassigned task this sprint"
      [] OTHER -> ""

\* ------------------------------------------------------------------------
\* 5. Risk analysis and KPIs (_analyze_and_balance)
\* ------------------------------------------------------------------------
TotalPlannedEffort(selected) ==
    SumSeq([k \in DOMAIN selected |-> selected[k].estimatedHours])

\* min(100, int(capacity_utilization * 100 * 1.25))
DelayRiskPercent(selected, total_capacity) ==
    IF total_capacity > 0
    THEN Min(100, (TotalPlannedEffort(selected) * HourUnits * 125) \div total_capacity)
    ELSE 0

\* the members whose load exceeds OVERLOAD_PENALTY_THRESHOLD of their capacity,
\* in the order of self.members
OverloadedMembers(ms, capacities, load) ==
    LET mids == [i \in DOMAIN ms |-> ms[i].projectMemberId]
    IN  SelectSeq(mids, LAMBDA mid :
            /\ capacities[mid] > 0
            /\ load[mid] * 100 > OVERLOAD_PENALTY_THRESHOLD * capacities[mid])

\* the dependency ids appended to critical_dependencies, in order
CriticalDependencies(ts, selected) ==
    LET selected_ids == {selected[k].taskId : k \in DOMAIN selected}
        of(tid) == SelectSeq(GetTask(ts, tid).dependencies, LAMBDA dep :
                      /\ HasTask(ts, dep)
                      /\ dep \notin selected_ids
                      /\ GetTask(ts, dep).status \notin {"Done", "Completed"})
    IN  Flatten([k \in DOMAIN selected |-> of(selected[k].taskId)])

\* the selected tasks due on or before the sprint end date, in order
DeadlineThreats(ts, selected, cfg) ==
    LET ids == [k \in DOMAIN selected |-> selected[k].taskId]
    IN  SelectSeq(ids, LAMBDA tid :
            /\ GetTask(ts, tid).deadline # <<>>
            /\ GetTask(ts, tid).deadline[1] - cfg.sprintLengthDays <= 0)

_compute_sprint_risk_score(deferred_count, critical_deps, overloaded_count, deadline_threats) ==
    Min(100, Min(40, deferred_count * 2) + Min(30, critical_deps * 5)
             + Min(20, overloaded_count * 7) + Min(10, deadline_threats * 5))

\* round(sum(vel * cap / total_team_capacity * rel), 2) in hundredths
_predict_velocity(ms, capacities, total_capacity) ==
    IF total_capacity <= 0 THEN 0
    ELSE RoundDiv(
            100 * SumSeq([i \in DOMAIN ms |->
                            ms[i].velocity * capacities[ms[i].projectMemberId]
                              * ms[i].reliabilityScore]),
            total_capacity * FactorDen)

FairnessReport(ms, overloaded) ==
    [i \in DOMAIN ms |->
        LET mid == ms[i].projectMemberId IN
        [projectMemberId |-> mid,
         fairnessScore |-> member_fairness_score[mid],
         normalizedShare |-> member_normalized_fair_share[mid],
         fairShareHours |-> member_fair_share_hours[mid],
         \* round(load, 1) in tenths of an hour
         plannedHours |-> RoundDiv(member_current_load[mid], HourUnits \div 10),
         overloadFlag |-> mid \in Range(overloaded)]]

\* a summary that gives every member the whole selected list
WorkloadOfWholeList(ms, selected) ==
    [i \in DOMAIN ms |->
        [memberId |-> ms[i].projectMemberId,
         taskCount |-> Len(selected),
         totalEstimatedHours |-> SumSeq([k \in DOMAIN selected |-> selected[k].estimatedHours]),
         totalStoryPoints |->
             SumSeq([k \in DOMAIN selected |-> RoundDiv(selected[k].estimatedHours * 100, 4)])]]

\* per member: the count and the summed estimatedHours of the selected entries
\* assigned to the member; Task has no storyPoints, so sp = round(est / 4, 2)
MemberWorkloadSummary(ms, selected) ==
    [i \in DOMAIN ms |->
        LET mid == ms[i].projectMemberId
            mine == SelectSeq(selected, LAMBDA e : e.assignedTo = mid)
        IN  [memberId |-> mid,
             taskCount |-> Len(mine),
             totalEstimatedHours |-> SumSeq([k \in DOMAIN mine |-> mine[k].estimatedHours]),
             \* hundredths of a story point
             totalStoryPoints |->
                 SumSeq([k \in DOMAIN mine |-> RoundDiv(mine[k].estimatedHours * 100, 4)])]]

\* list(set(x)): the distinct elements in the iteration order of a set of
\* strings, which the interpreter's per-process hash seed decides
_analyze_and_balance ==
    /\ pc = "analyze"
    /\ LET overloaded_members == OverloadedMembers(members, member_capacities, member_current_load)
           critical_dependencies == CriticalDependencies(tasks, selected_tasks)
           deadline_threats == DeadlineThreats(tasks, selected_tasks, sprint_config)
           low_reliability ==
               SelectSeq(members, LAMBDA m :
                   m.reliabilityScore * 100 < RELIABILITY_THRESHOLD * FactorDen)
       IN  /\ \E ov \in Orderings(Range(overloaded_members)),
                 cd \in Orderings(Range(critical_dependencies)),
                 dt \in Orderings(Range(deadline_threats)) :
                  risk_analysis' =
                      [delayRiskPercent |-> DelayRiskPercent(selected_tasks, total_team_capacity),
                       overloadedMembers |-> ov,
                       criticalDependencies |-> cd,
                       deadlineThreats |-> dt]
           /\ kpis' =
                  [predictedVelocity |->
                       _predict_velocity(members, member_capacities, total_team_capacity),
                   sprintRiskScore |->
                       _compute_sprint_risk_score(Len(deferred_tasks),
                                                  Cardinality(Range(critical_dependencies)),
                                                  Len(overloaded_members),
                                                  Len(deadline_threats)),
                   fairnessReport |-> FairnessReport(members, overloaded_members),
                   total_planned_effort |-> TotalPlannedEffort(selected_tasks),
                   member_workload_summary |-> MemberWorkloadSummary(members, selected_tasks)]
           /\ recommendations' = recommendations
                  \o [k \in DOMAIN overloaded_members |->
                         [kind |-> "Overloaded", member |-> overloaded_members[k]]]
                  \o [k \in DOMAIN low_reliability |->
                         [kind |-> "LowReliability", member |-> low_reliability[k].projectMemberId]]
                  \o [k \in DOMAIN critical_dependencies |->
                         [kind |-> "DependsOnUncompleted", dep |-> critical_dependencies[k]]]
                  \o [k \in DOMAIN deadline_threats |->
                         [kind |-> "MayMissDeadline", task |-> deadline_threats[k]]]
    /\ pc' = "summary"
    /\ UNCHANGED <<inputVars, total_team_capacity, member_capacities,
                   effective_max_tasks, member_current_load, member_task_count,
                   member_fairness_score, member_normalized_fair_share,
                   member_fair_share_hours, selected_tasks, deferred_tasks,
                   eligible_tasks, tasks_by_assignee, unassigned_tasks,
                   selected_task_ids, sorted_members, member_index, plans>>
    /\ UNCHANGED <<parked, fetch, traversal>>

\* ------------------------------------------------------------------------
\* 6. The plan (get_final_plan after the four steps)
\* ------------------------------------------------------------------------
\* scorer.compute_task_score in hundredths, on the model_dump() of a task:
\* round(priority_weight * type_value * urgency_boost / effort_factor * 10, 2)
\* with effort_factor = max(estimatedHours, 1.0).  Task has no `type` field
\* (type_value = TYPE_VALUE["Other"] = 1.0) and the titles of TaskBacklog hold
\* neither "urgent" nor "critical" (urgency_boost = 1.0).  The priority
\* weights are doubled here (Trivial is 0.5).
PriorityWeightDoubled(priority) ==
    CASE priority = "Critical" -> 8
      [] priority = "High" -> 6
      [] priority = "Medium" -> 4
      [] priority = "Low" -> 2
      [] priority = "Trivial" -> 1
      [] OTHER -> 2

compute_task_score(task) ==
    RoundDiv(PriorityWeightDoubled(task.priority) * 10 * 100, 2 * Max(task.estimatedHours, 1))

\* generate_sprint_summary: ai_confidence = round(min(1.0, avg_score / 10.0), 2)
\* in hundredths, over the selected tasks; 0 when there is none
HeuristicConfidence(ts, selected) ==
    IF selected = <<>> THEN 0
    ELSE Min(100, RoundDiv(SumSeq([k \in DOMAIN selected |->
                                      compute_task_score(GetTask(ts, selected[k].taskId))]),
                           10 * Len(selected)))

\* what `await generate_sprint_summary(...)` does: it returns the model's
\* answer ("ai"), returns its own fallback ("fallback": no tasks, no API key,
\* or the call failed after the retries of fetch_with_retry, or the answer
\* could not be parsed), or raises, and get_final_plan then substitutes the
\* minimal summary ("raised")
SummaryOutcomes == {"ai", "fallback", "raised"}

\* the confidence the model's answer may carry, in hundredths; <<>> when the
\* answer has no aiConfidence
AiConfidences == {<<>>, <<0>>, <<50>>, <<100>>}

\* a recommendation in the model's answer: a text the planner never writes
AiRecommendation == [kind |-> "Ai"]

\* the `recommendations` the model's answer may carry: none, or a list that
\* repeats a text
AiRecommendationLists == {<<>>, <<AiRecommendation, AiRecommendation>>}

\* a merge that keeps the summarizer's list in place of the planner's
ReplaceRecommendations(recs, ai_recs) == ai_recs

\* for r in ai_recs: if r not in self.recommendations: append(r)
RECURSIVE MergeRecommendations(_, _)
MergeRecommendations(recs, ai_recs) ==
    IF ai_recs = <<>> THEN recs
    ELSE MergeRecommendations(IF \E k \in DOMAIN recs : recs[k] = Head(ai_recs)
                              THEN recs
                              ELSE Append(recs, Head(ai_recs)),
                              Tail(ai_recs))

\* summary_data: aiSummary, aiConfidence (hundredths) and the recommendations
\* of the answer; the fallback and the minimal summary have none
SummaryData(outcome, answered, ai_recs) ==
    CASE outcome = "raised" ->
            [aiSummary |-> [kind |-> "minimal", total_tasks |-> 0], aiConfidence |-> 0,
             recommendations |-> <<>>]
      [] outcome = "fallback" ->
            [aiSummary |-> [kind |-> "fallback", total_tasks |-> Len(selected_tasks)],
             aiConfidence |-> HeuristicConfidence(tasks, selected_tasks),
             recommendations |-> <<>>]
      [] OTHER ->
            [aiSummary |-> [kind |-> "ai", total_tasks |-> Len(selected_tasks)],
             aiConfidence |-> IF answered = <<>>
                              THEN HeuristicConfidence(tasks, selected_tasks)
                              ELSE answered[1],
             recommendations |-> ai_recs]

FinalPlan(summary_data) ==
    [success |-> TRUE,
     summary |-> summary_data.aiSummary,
     aiSummary |-> summary_data.aiSummary,
     aiConfidence |-> summary_data.aiConfidence,
     capacity |-> [totalCapacityHours |-> RoundDiv(total_team_capacity, HourUnits \div 10),
                   memberCapacities |->
                       [i \in DOMAIN members |->
                           [projectMemberId |-> members[i].projectMemberId,
                            effectiveHours |->
                                RoundDiv(member_capacities[members[i].projectMemberId],
                                         HourUnits \div 10)]]],
     selectedTasks |-> selected_tasks,
     deferredTasks |-> deferred_tasks,
     riskAnalysis |-> risk_analysis,
     recommendations |-> MergeRecommendations(recommendations, summary_data.recommendations),
     predictedVelocity |-> kpis.predictedVelocity,
     sprintRiskScore |-> kpis.sprintRiskScore,
     fairnessReport |-> kpis.fairnessReport,
     memberWorkloadSummary |-> kpis.member_workload_summary,
     totalEffort |-> kpis.total_planned_effort]

\* with no selected task generate_sprint_summary returns its fallback before
\* any call is made
ReturnPlan ==
    /\ pc = "summary"
    /\ \E outcome \in SummaryOutcomes, answered \in AiConfidences,
          ai_recs \in AiRecommendationLists :
          /\ outcome = "ai" => selected_tasks # <<>>
          /\ outcome # "ai" => answered = <<>> /\ ai_recs = <<>>
          /\ plans' = Append(plans, FinalPlan(SummaryData(outcome, answered, ai_recs)))
          /\ recommendations' = MergeRecommendations(recommendations, ai_recs)
    /\ pc' = "done"
    /\ UNCHANGED <<inputVars, total_team_capacity, member_capacities,
                   effective_max_tasks, member_current_load, member_task_count,
                   member_fairness_score, member_normalized_fair_share,
                   member_fair_share_hours, selected_tasks, deferred_tasks,
                   risk_analysis, kpis, eligible_tasks,
                   tasks_by_assignee, unassigned_tasks, selected_task_ids,
                   sorted_members, member_index>>
    /\ UNCHANGED <<parked, fetch, traversal>>

Next ==
    \/ _calculate_sprint_capacity
    \/ _filter_tasks
    \/ SelectPrepare
    \/ MemberStep
    \/ DeferRemaining
    \/ _analyze_and_balance
    \/ ReturnPlan

Spec == Init /\ [][Next]_vars

\* ------------------------------------------------------------------------
\* A second request with the same members, tasks and sprint configuration on
\* the same day.  plan_single_sprint builds a new SprintPlanner, and the
\* route builds new Task objects from the request, so the trackers and the
\* planner-attached task fields start over.  The request may be served by
\* another interpreter process, whose string hashes, and therefore whose set
\* iteration orders, are its own.
\* ------------------------------------------------------------------------
MaxRuns == 2

RunAgain ==
    /\ pc = "done"
    /\ Len(plans) < MaxRuns
    /\ pc' = "capacity"
    /\ tasks' = [i \in DOMAIN tasks |->
                    [tasks[i] EXCEPT !.eligibility_reason = "Unprocessed",
                                     !._assignee_id_resolved = None,
                                     !._priority_score = 0]]
    /\ total_team_capacity' = 0
    /\ member_capacities' = <<>>
    /\ effective_max_tasks' = <<>>
    /\ member_current_load' = [mid \in MemberIds |-> 0]
    /\ member_task_count' = [mid \in MemberIds |-> 0]
    /\ member_fairness_score' = <<>>
    /\ member_normalized_fair_share' = <<>>
    /\ member_fair_share_hours' = <<>>
    /\ selected_tasks' = <<>>
    /\ deferred_tasks' = <<>>
    /\ recommendations' = <<>>
    /\ risk_analysis' = <<>>
    /\ kpis' = <<>>
    /\ eligible_tasks' = <<>>
    /\ tasks_by_assignee' = <<>>
    /\ unassigned_tasks' = <<>>
    /\ selected_task_ids' = {}
    /\ sorted_members' = <<>>
    /\ member_index' = 0
    /\ UNCHANGED <<members, sprint_config, plans>>
    /\ UNCHANGED <<parked, fetch, traversal>>

NextTwice ==
    \/ Next
    \/ RunAgain

SpecTwice == Init /\ [][NextTwice]_vars

\* ------------------------------------------------------------------------
\* plan_single_sprint called with any member and task lists, the empty lists
\* included: neither plan_single_sprint nor get_final_plan looks at the
\* lengths of the lists before planning.
\* ------------------------------------------------------------------------
\* the subsequences of s of length at most n, the empty one included
SubSeqsOrEmpty(s, n) == SubSeqs(s, n) \cup {<<>>}

InitAnyLists ==
    /\ members \in SubSeqsOrEmpty(MemberRoster, MaxMembers)
    /\ tasks \in SubSeqsOrEmpty(TaskBacklog, MaxTasks)
    /\ sprint_config \in SprintConfigs
    /\ plans = <<>>
    /\ parked = <<>>
    /\ fetch = NoFetch
    /\ traversal = NoTraversal
    /\ PlannerInit

SpecAnyLists == InitAnyLists /\ [][Next]_vars

\* ------------------------------------------------------------------------
\* Two requests served by one process.  Each request has its own
\* SprintPlanner; every tracker is an attribute the constructor sets on the
\* instance (self.x = ...), and the module-level names of planner_engine.py
\* are constants.  The frame of a planner is the value of its attributes, its
\* position in get_final_plan and the plan it has returned.
\* First each request is planned alone, and the planner it leaves at the
\* summarizer call is kept for reference; then the two requests are planned
\* again from fresh copies of their records, switching from one planner to
\* the other at any step.
\* ------------------------------------------------------------------------
Frame ==
    [pc |-> pc, members |-> members, tasks |-> tasks, sprint_config |-> sprint_config,
     total_team_capacity |-> total_team_capacity,
     member_capacities |-> member_capacities,
     effective_max_tasks |-> effective_max_tasks,
     member_current_load |-> member_current_load,
     member_task_count |-> member_task_count,
     member_fairness_score |-> member_fairness_score,
     member_normalized_fair_share |-> member_normalized_fair_share,
     member_fair_share_hours |-> member_fair_share_hours,
     selected_tasks |-> selected_tasks, deferred_tasks |-> deferred_tasks,
     recommendations |-> recommendations, risk_analysis |-> risk_analysis,
     kpis |-> kpis, eligible_tasks |-> eligible_tasks,
     tasks_by_assignee |-> tasks_by_assignee, unassigned_tasks |-> unassigned_tasks,
     selected_task_ids |-> selected_task_ids, sorted_members |-> sorted_members,
     member_index |-> member_index, plans |-> plans]

\* the records of a request as the route builds them, before a planner has
\* attached anything to them
RequestTasks(ts) ==
    [i \in DOMAIN ts |->
        [ts[i] EXCEPT !.eligibility_reason = "Unprocessed",
                      !._assignee_id_resolved = None,
                      !._priority_score = 0]]

\* SprintPlanner(project_id, members, tasks, sprint_config, ...)
NewPlanner(ms, ts, cfg) ==
    [pc |-> "capacity", members |-> ms, tasks |-> RequestTasks(ts), sprint_config |-> cfg,
     total_team_capacity |-> 0,
     member_capacities |-> <<>>,
     effective_max_tasks |-> <<>>,
     member_current_load |-> [i \in {ms[k].projectMemberId : k \in DOMAIN ms} |-> 0],
     member_task_count |-> [i \in {ms[k].projectMemberId : k \in DOMAIN ms} |-> 0],
     member_fairness_score |-> <<>>,
     member_normalized_fair_share |-> <<>>,
     member_fair_share_hours |-> <<>>,
     selected_tasks |-> <<>>, deferred_tasks |-> <<>>,
     recommendations |-> <<>>, risk_analysis |-> <<>>,
     kpis |-> <<>>, eligible_tasks |-> <<>>,
     tasks_by_assignee |-> <<>>, unassigned_tasks |-> <<>>,
     selected_task_ids |-> {}, sorted_members |-> <<>>,
     member_index |-> 0, plans |-> <<>>]

\* a tracker kept in one place for all planners (a class attribute, a module
\* global): a planner finds what the planner before it left there
SharedByAllPlanners(own, left_by_other) == left_by_other

\* a tracker the constructor sets on the instance, as every tracker of
\* SprintPlanner is (self.member_current_load = {...}): a planner finds its
\* own value whatever another planner did meanwhile
InstanceAttribute(own, left_by_other) == own

\* the planner whose frame is f runs on from where it was
Resume(f) ==
    /\ pc' = f.pc
    /\ members' = f.members
    /\ tasks' = f.tasks
    /\ sprint_config' = f.sprint_config
    /\ total_team_capacity' = InstanceAttribute(f.total_team_capacity, total_team_capacity)
    /\ member_capacities' = InstanceAttribute(f.member_capacities, member_capacities)
    /\ effective_max_tasks' = f.effective_max_tasks
    /\ member_current_load' = InstanceAttribute(f.member_current_load, member_current_load)
    /\ member_task_count' = InstanceAttribute(f.member_task_count, member_task_count)
    /\ member_fairness_score' = f.member_fairness_score
    /\ member_normalized_fair_share' = f.member_normalized_fair_share
    /\ member_fair_share_hours' = f.member_fair_share_hours
    /\ selected_tasks' = InstanceAttribute(f.selected_tasks, selected_tasks)
    /\ deferred_tasks' = InstanceAttribute(f.deferred_tasks, deferred_tasks)
    /\ recommendations' = f.recommendations
    /\ risk_analysis' = f.risk_analysis
    /\ kpis' = f.kpis
    /\ eligible_tasks' = f.eligible_tasks
    /\ tasks_by_assignee' = f.tasks_by_assignee
    /\ unassigned_tasks' = f.unassigned_tasks
    /\ selected_task_ids' = f.selected_task_ids
    /\ sorted_members' = f.sorted_members
    /\ member_index' = f.member_index
    /\ plans' = f.plans

\* the second request: the same project's members and tasks, planned with
\* another sprint configuration
OtherConfig(cfg) == CHOOSE c \in SprintConfigs : c # cfg

\* the first request has been planned alone: the second is planned alone
PlanOtherAlone ==
    /\ pc = "summary"
    /\ parked = <<>>
    /\ parked' = <<Frame>>
    /\ Resume(NewPlanner(members, tasks, OtherConfig(sprint_config)))
    /\ UNCHANGED <<fetch, traversal>>

\* both have been planned alone: both are planned again, together
PlanTogether ==
    /\ pc = "summary"
    /\ Len(parked) = 1
    /\ parked' = <<parked[1], Frame,
                   NewPlanner(members, tasks, sprint_config)>>
    /\ Resume(NewPlanner(parked[1].members, parked[1].tasks, parked[1].sprint_config))
    /\ UNCHANGED <<fetch, traversal>>

\* the event loop, or the thread scheduler, goes on with the other planner
Switch ==
    /\ Len(parked) = 3
    /\ parked' = <<parked[1], parked[2], Frame>>
    /\ Resume(parked[3])
    /\ UNCHANGED <<fetch, traversal>>

NextInterleaved ==
    \/ Next
    \/ PlanOtherAlone
    \/ PlanTogether
    \/ Switch

\* the longest task list of a request planned together with another
MaxInterleavedTasks == 2

InitInterleaved ==
    /\ members \in SubSeqs(MemberRoster, MaxMembers)
    /\ tasks \in SubSeqs(TaskBacklog, MaxInterleavedTasks)
    /\ sprint_config \in SprintConfigs
    /\ plans = <<>>
    /\ parked = <<>>
    /\ fetch = NoFetch
    /\ traversal = NoTraversal
    /\ PlannerInit

SpecInterleaved == InitInterleaved /\ [][NextInterleaved]_vars

\* ------------------------------------------------------------------------
\* Requests whose task list is a Done task followed by two tasks that differ
\* in their id and their priority only, for the properties of the priority
\* score.  Task.priority is a str with default "Medium": any string reaches
\* the scorer, "Urgent" stands for the strings priority_map does not know.
\* ------------------------------------------------------------------------
Priorities == {"Low", "Medium", "High", "Critical", "Urgent"}

TwinDeadlines == {<<>>, <<3>>, <<10>>}

TwinDependencies == {<<>>, <<"t1">>}

TwinHours == {0, 8}

TwinLists ==
    {<<Task("t1", "Done", 8, "Medium", None, <<>>, <<>>),
       Task("a", "Backlog", h, pa, None, deps, dl),
       Task("b", "Backlog", h, pb, None, deps, dl)>> :
        <<h, pa, pb, deps, dl>> \in
            TwinHours \X Priorities \X Priorities \X TwinDependencies \X TwinDeadlines}

InitPriorities ==
    /\ members \in SubSeqs(MemberRoster, 1)
    /\ tasks \in TwinLists
    /\ sprint_config \in SprintConfigs
    /\ plans = <<>>
    /\ parked = <<>>
    /\ fetch = NoFetch
    /\ traversal = NoTraversal
    /\ PlannerInit

SpecPriorities == InitPriorities /\ [][Next]_vars

\* ------------------------------------------------------------------------
\* The summarizer call of get_final_plan step by step: generate_sprint_summary
\* and its fetch_with_retry(url, payload, headers, max_retries=3).
\* ------------------------------------------------------------------------
max_retries == 3

\* a backoff that waits the same delay every time
SameDelay(delay) == delay

\* delay *= 2
NextDelay(delay) == delay * 2

\* generate_sprint_summary returns its fallback before any call (no task, no
\* requests module, no API key) or raises before it
ReturnWithoutCall ==
    /\ pc = "summary"
    /\ fetch.state = "idle"
    /\ \E outcome \in {"fallback", "raised"} :
          plans' = Append(plans, FinalPlan(SummaryData(outcome, <<>>, <<>>)))
    /\ pc' = "done"
    /\ UNCHANGED <<inputVars, total_team_capacity, member_capacities,
                   effective_max_tasks, member_current_load, member_task_count,
                   member_fairness_score, member_normalized_fair_share,
                   member_fair_share_hours, selected_tasks, deferred_tasks,
                   recommendations, risk_analysis, kpis, eligible_tasks,
                   tasks_by_assignee, unassigned_tasks, selected_task_ids,
                   sorted_members, member_index, parked, fetch, traversal>>

\* result = await fetch_with_retry(api_url, payload, headers)
CallFetch ==
    /\ pc = "summary"
    /\ fetch.state = "idle"
    /\ selected_tasks # <<>>
    /\ fetch' = [fetch EXCEPT !.state = "attempting"]
    /\ UNCHANGED <<inputVars, pc, total_team_capacity, member_capacities,
                   effective_max_tasks, member_current_load, member_task_count,
                   member_fairness_score, member_normalized_fair_share,
                   member_fair_share_hours, selected_tasks, deferred_tasks,
                   recommendations, risk_analysis, kpis, eligible_tasks,
                   tasks_by_assignee, unassigned_tasks, selected_task_ids,
                   sorted_members, member_index, plans, parked, traversal>>

\* one pass of the loop body up to the return, the raise or the sleep:
\* requests.post with its timeout succeeds or fails
PostAttempt ==
    /\ fetch.state = "attempting"
    /\ fetch.attempt < max_retries
    /\ \E ok \in BOOLEAN :
          fetch' = [fetch EXCEPT
                       !.posts = @ + 1,
                       !.state = IF ok THEN "returned"
                                 ELSE IF fetch.attempt = max_retries - 1 THEN "raised"
                                 ELSE "sleeping"]
    /\ UNCHANGED <<inputVars, pc, total_team_capacity, member_capacities,
                   effective_max_tasks, member_current_load, member_task_count,
                   member_fairness_score, member_normalized_fair_share,
                   member_fair_share_hours, selected_tasks, deferred_tasks,
                   recommendations, risk_analysis, kpis, eligible_tasks,
                   tasks_by_assignee, unassigned_tasks, selected_task_ids,
                   sorted_members, member_index, plans, parked, traversal>>

\* await asyncio.sleep(delay); delay *= 2; and on to the next attempt
Backoff ==
    /\ fetch.state = "sleeping"
    /\ fetch' = [fetch EXCEPT !.sleeps = Append(@, fetch.delay),
                              !.delay = NextDelay(@),
                              !.attempt = @ + 1,
                              !.state = "attempting"]
    /\ UNCHANGED <<inputVars, pc, total_team_capacity, member_capacities,
                   effective_max_tasks, member_current_load, member_task_count,
                   member_fairness_score, member_normalized_fair_share,
                   member_fair_share_hours, selected_tasks, deferred_tasks,
                   recommendations, risk_analysis, kpis, eligible_tasks,
                   tasks_by_assignee, unassigned_tasks, selected_task_ids,
                   sorted_members, member_index, plans, parked, traversal>>

\* after the call: the raise of fetch_with_retry is caught and the fallback
\* returned; an answer is parsed into the AI summary, or, with no text or
\* text that is not JSON, the fallback is returned
ReturnAfterFetch ==
    /\ pc = "summary"
    /\ fetch.state \in {"returned", "raised"}
    /\ \E outcome \in {"ai", "fallback"}, answered \in AiConfidences,
          ai_recs \in AiRecommendationLists :
          /\ fetch.state = "raised" => outcome = "fallback"
          /\ outcome # "ai" => answered = <<>> /\ ai_recs = <<>>
          /\ plans' = Append(plans, FinalPlan(SummaryData(outcome, answered, ai_recs)))
          /\ recommendations' = MergeRecommendations(recommendations, ai_recs)
    /\ pc' = "done"
    /\ UNCHANGED <<inputVars, total_team_capacity, member_capacities,
                   effective_max_tasks, member_current_load, member_task_count,
                   member_fairness_score, member_normalized_fair_share,
                   member_fair_share_hours, selected_tasks, deferred_tasks,
                   risk_analysis, kpis, eligible_tasks,
                   tasks_by_assignee, unassigned_tasks, selected_task_ids,
                   sorted_members, member_index, parked, fetch, traversal>>

NextWithFetch ==
    \/ _calculate_sprint_capacity
    \/ _filter_tasks
    \/ SelectPrepare
    \/ MemberStep
    \/ DeferRemaining
    \/ _analyze_and_balance
    \/ ReturnWithoutCall
    \/ CallFetch
    \/ PostAttempt
    \/ Backoff
    \/ ReturnAfterFetch

SpecWithFetch == Init /\ [][NextWithFetch]_vars

\* ------------------------------------------------------------------------
\* Teams of three members: with three members an unassigned task can be
\* offered to, and refused by, more than one member before anyone takes it.
\* ------------------------------------------------------------------------
TeamSize == 3

\* the longest task list planned for a team of three
MaxTeamTasks == 2

\* the teams of three that m1 belongs to.  For these no figure the planner
\* rounds lies exactly halfway between two roundings, where the binary value
\* of the float decides the direction.
Teams ==
    {ms \in SubSeqs(MemberRoster, TeamSize) :
        /\ Len(ms) = TeamSize
        /\ \E i \in DOMAIN ms : ms[i].projectMemberId = "m1"}

InitTeam ==
    /\ members \in Teams
    /\ tasks \in SubSeqs(TaskBacklog, MaxTeamTasks)
    /\ sprint_config \in SprintConfigs
    /\ plans = <<>>
    /\ parked = <<>>
    /\ fetch = NoFetch
    /\ traversal = NoTraversal
    /\ PlannerInit

SpecTeam == InitTeam /\ [][Next]_vars

\* ------------------------------------------------------------------------
\* The calls of _dependency_depth step by step, on task lists whose completed
\* tasks a, b and c depend on one another in any way (chains, diamonds,
\* cycles, a task depending on itself, an id no task has) and whose open task
\* x depends on some of them.  Task.dependencies is a List[str] that nothing
\* validates.  _select_tasks scores every eligible task, and the score calls
\* _dependency_depth(task) with a fresh visited set.
\* ------------------------------------------------------------------------
GraphIds == {"a", "b", "c"}

\* the longest dependency list of a task of the graph
MaxDeps == 2

\* the stack depth the traversal is followed to
RecursionLimit == 6

\* the lists of at most MaxDeps different ids
DepLists(ids) ==
    {s \in UNION {[1..n -> ids] : n \in 0..MaxDeps} :
        \A i, j \in DOMAIN s : i # j => s[i] # s[j]}

GraphLists ==
    {<<Task("a", "Done", 8, "Medium", None, da, <<>>),
       Task("b", "Done", 8, "Medium", None, db, <<>>),
       Task("c", "Done", 8, "Medium", None, dc, <<>>),
       Task("x", "Backlog", 8, "Medium", None, dx, <<>>)>> :
        da \in DepLists(GraphIds), db \in DepLists(GraphIds),
        dc \in DepLists(GraphIds) \cup {<<"u">>}, dx \in DepLists(GraphIds)}

InitGraphs ==
    /\ members = <<MemberRoster[1]>>
    /\ tasks \in GraphLists
    /\ sprint_config = CHOOSE cfg \in SprintConfigs : cfg.startWeekday = 0
    /\ plans = <<>>
    /\ parked = <<>>
    /\ fetch = NoFetch
    /\ traversal = NoTraversal
    /\ PlannerInit

plannerVars ==
    <<pc, members, tasks, sprint_config, total_team_capacity, member_capacities,
      effective_max_tasks, member_current_load, member_task_count,
      member_fairness_score, member_normalized_fair_share, member_fair_share_hours,
      selected_tasks, deferred_tasks, recommendations, risk_analysis, kpis,
      eligible_tasks, tasks_by_assignee, unassigned_tasks, selected_task_ids,
      sorted_members, member_index, plans, parked, fetch>>

\* dep_depth = self._dependency_depth(task): visited = set(), depth = 0
CallDepth ==
    /\ pc = "select"
    /\ traversal.state = "idle"
    /\ Len(traversal.results) < Len(eligible_tasks)
    /\ traversal' =
           [traversal EXCEPT
               !.state = "running",
               !.stack = <<[task |-> eligible_tasks[Len(traversal.results) + 1],
                            i |-> 1, depth |-> 0]>>,
               !.visited = {},
               !.expanded = <<>>]
    /\ UNCHANGED plannerVars

\* one pass of `for dep in dependencies` in the innermost call: a dep already
\* visited is skipped; otherwise it is added to visited and, when it is a
\* known task, the call recurses into it, else depth = max(depth, 1)
\* (expanded is the log of the ids added to visited, each with the nesting
\* level of the call that added it)
DepthStep ==
    /\ traversal.state = "running"
    /\ Len(traversal.stack) < RecursionLimit
    /\ LET n == Len(traversal.stack)
           top == traversal.stack[n]
           deps == GetTask(tasks, top.task).dependencies
       IN  /\ top.i <= Len(deps)
           /\ LET dep == deps[top.i]
              IN  traversal' =
                      IF dep \in traversal.visited
                      THEN [traversal EXCEPT !.stack[n].i = @ + 1]
                      ELSE IF HasTask(tasks, dep)
                      THEN [traversal EXCEPT
                               !.visited = Visit(@, dep),
                               !.expanded = Append(@, [id |-> dep, level |-> n]),
                               !.stack = Append(@, [task |-> dep, i |-> 1, depth |-> 0])]
                      ELSE [traversal EXCEPT
                               !.visited = Visit(@, dep),
                               !.expanded = Append(@, [id |-> dep, level |-> n]),
                               !.stack[n] = [top EXCEPT !.i = @ + 1,
                                                        !.depth = Max(@, 1)]]
    /\ UNCHANGED plannerVars

\* return depth: the caller takes depth = max(depth, 1 + returned) and goes
\* on with its next dep; the outermost call hands the depth to the score
DepthReturn ==
    /\ traversal.state = "running"
    /\ LET n == Len(traversal.stack)
           top == traversal.stack[n]
           deps == GetTask(tasks, top.task).dependencies
       IN  /\ top.i > Len(deps)
           /\ traversal' =
                  IF n = 1
                  THEN [traversal EXCEPT !.state = "idle",
                                         !.stack = <<>>,
                                         !.results = Append(@, top.depth)]
                  ELSE [traversal EXCEPT
                           !.stack = SubSeq(@, 1, n - 2)
                               \o <<[traversal.stack[n - 1] EXCEPT
                                        !.i = @ + 1,
                                        !.depth = Max(@, 1 + top.depth)]>>]
    /\ UNCHANGED plannerVars

\* the rest of _select_tasks up to the member loop, once every eligible task
\* has its depth
ScoreAfterDepth ==
    /\ traversal.state = "idle"
    /\ Len(traversal.results) = Len(eligible_tasks)
    /\ SelectPrepare

NextDepth ==
    \/ _calculate_sprint_capacity
    \/ _filter_tasks
    \/ CallDepth
    \/ DepthStep
    \/ DepthReturn
    \/ ScoreAfterDepth
    \/ MemberStep
    \/ DeferRemaining
    \/ _analyze_and_balance
    \/ ReturnPlan

SpecDepth == InitGraphs /\ [][NextDepth]_vars

\* a call that has started runs on: the interpreter executes the next pass
\* of the loop or the return
SpecDepthFair == SpecDepth /\ WF_vars(DepthStep) /\ WF_vars(DepthReturn)

\* ------------------------------------------------------------------------
\* Properties
\* ------------------------------------------------------------------------
\* the number of entries of a selected or deferred list that name the task
CountOf(entries, tid) == Cardinality({k \in DOMAIN entries : entries[k].taskId = tid})

\* the selection step has ended
AfterSelection == pc \in {"analyze", "summary", "done"}

\* the entries of selected_tasks assigned to the member, in order
SelectedFor(mid) == SelectSeq(selected_tasks, LAMBDA e : e.assignedTo = mid)

\* C1: after capacity -> filter -> select, every task that passed the
\* eligibility filter has exactly one entry across selected_tasks and
\* deferred_tasks together: not in both, not in neither, not twice.
C1_ExactlyOneEntry ==
    AfterSelection =>
        \A tid \in Range(eligible_tasks) :
            CountOf(selected_tasks, tid) + CountOf(deferred_tasks, tid) = 1

\* C2: during and after selection, for every member the summed corrected
\* effort of the tasks selected for the member, which is the member's
\* member_current_load, is at most the member's capacity; a member whose
\* capacity is 0 has no selected task.
C2_LoadWithinCapacity ==
    pc \in {"member_loop", "analyze", "summary", "done"} =>
        \A mid \in MemberIds :
            LET mine == SelectedFor(mid)
                effort == SumSeq([k \in DOMAIN mine |->
                             IF TaskById(mine[k].taskId).estimatedHours > 0
                             THEN TaskById(mine[k].taskId).estimatedHours ELSE 8])
            IN  /\ member_current_load[mid] = effort * HourUnits
                /\ effort * HourUnits <= member_capacities[mid]
                /\ member_capacities[mid] = 0 => mine = <<>>

\* C2 witness: a finished run in which one member carries load and the
\* capacity check rejected a task for another
C2_Witness ==
    /\ pc = "done"
    /\ \E mid \in MemberIds : member_current_load[mid] > 0
    /\ \E k \in DOMAIN recommendations : recommendations[k].kind = "CapacityViolation"

\* C3: every task the eligibility filter excludes (status not Backlog/Open,
\* unmet dependency, unknown assignee) has exactly one entry in
\* deferred_tasks, so no input task is missing from both lists.
C3_ExcludedDeferredOnce ==
    pc \notin {"capacity", "filter"} =>
        \A i \in DOMAIN tasks :
            tasks[i].taskId \notin Range(eligible_tasks)
                => CountOf(deferred_tasks, tasks[i].taskId) = 1

\* the effort the specification gives a task: 8 hours when the estimate is
\* not positive, the estimate otherwise
SpecEffort(tid) ==
    IF TaskById(tid).estimatedHours > 0 THEN TaskById(tid).estimatedHours ELSE 8

\* the dependency ids of a task that are not the id of a task in status Done
\* or Completed, in the order the task lists them
UnmetDependencies(task) ==
    SelectSeq(task.dependencies, LAMBDA d :
        ~\E j \in DOMAIN tasks :
            tasks[j].taskId = d /\ tasks[j].status \in {"Done", "Completed"})

\* the task passes the filter on its own status, dependencies and assignee
OwnCriteriaMet(task) ==
    /\ task.status \in {"Backlog", "Open"}
    /\ UnmetDependencies(task) = <<>>
    /\ task.assignedTo = None \/ task.assignedTo \in MemberIds

C5_CorrectedEffort ==
    /\ \A k \in DOMAIN selected_tasks :
          LET e == selected_tasks[k] IN
          /\ e.estimatedHours = SpecEffort(e.taskId)
          /\ e.reason.task_effort = SpecEffort(e.taskId)
          /\ e.reason.remaining_capacity >= SpecEffort(e.taskId) * HourUnits
    /\ \A k \in DOMAIN deferred_tasks :
          LET e == deferred_tasks[k] IN
          e.reason.kind = "CapacityViolation" =>
              /\ e.reason.task_effort = SpecEffort(e.taskId)
              /\ e.reason.remaining_capacity < SpecEffort(e.taskId) * HourUnits
    /\ pc \in {"member_loop", "analyze", "summary", "done"} =>
          \A mid \in MemberIds :
              member_current_load[mid] =
                  HourUnits * SumSeq([k \in DOMAIN SelectedFor(mid) |->
                                         SpecEffort(SelectedFor(mid)[k].taskId)])
    /\ pc \in {"summary", "done"} =>
          /\ kpis.total_planned_effort =
                 SumSeq([k \in DOMAIN selected_tasks |-> SpecEffort(selected_tasks[k].taskId)])
          /\ \A i \in DOMAIN members :
                kpis.member_workload_summary[i].totalEstimatedHours =
                    SumSeq([k \in DOMAIN SelectedFor(members[i].projectMemberId) |->
                               SpecEffort(SelectedFor(members[i].projectMemberId)[k].taskId)])
    /\ \A p \in DOMAIN plans : plans[p].totalEffort =
          SumSeq([k \in DOMAIN plans[p].selectedTasks |->
                     SpecEffort(plans[p].selectedTasks[k].taskId)])

\* C5 witness: a returned plan that selects a task with estimatedHours 0 at
\* 8 hours and a task with a positive estimate
C5_Witness ==
    /\ pc = "done"
    /\ \E k \in DOMAIN selected_tasks :
          /\ TaskById(selected_tasks[k].taskId).estimatedHours = 0
          /\ selected_tasks[k].estimatedHours = 8
    /\ \E k \in DOMAIN selected_tasks :
          TaskById(selected_tasks[k].taskId).estimatedHours > 0
    /\ kpis.total_planned_effort > 8

\* the eligible tasks pre-assigned to the member, in input order
PreAssignedTo(mid) ==
    SelectSeq(eligible_tasks, LAMBDA t : TaskById(t).assignedTo = mid)

\* the task of a non-empty list of task ids (in input order) with the highest
\* priority score, the earliest among equal scores
TopOf(list) ==
    list[CHOOSE i \in DOMAIN list :
            \A j \in DOMAIN list :
                \/ TaskById(list[i])._priority_score > TaskById(list[j])._priority_score
                \/ /\ TaskById(list[i])._priority_score = TaskById(list[j])._priority_score
                   /\ i <= j]

\* the highest-priority task pre-assigned to the member needs more than the
\* member's capacity
TopPreAssignedTooBig(mid) ==
    /\ PreAssignedTo(mid) # <<>>
    /\ SpecEffort(TopOf(PreAssignedTo(mid))) * HourUnits > member_capacities[mid]

DeferredAs(tid, kind) ==
    \E k \in DOMAIN deferred_tasks :
        deferred_tasks[k].taskId = tid /\ deferred_tasks[k].reason.kind = kind

\* C6 as stated: when the highest-priority task pre-assigned to a member has
\* corrected effort greater than the member's capacity, the task is deferred
\* with a capacity-violation reason and the member ends with no selected task.
C6_AsStated ==
    AfterSelection =>
        \A mid \in MemberIds :
            TopPreAssignedTooBig(mid) =>
                /\ DeferredAs(TopOf(PreAssignedTo(mid)), "CapacityViolation")
                /\ SelectedFor(mid) = <<>>

\* C6 amended: under the same condition the member ends with no selected
\* task and the task has exactly one deferred entry; its reason is the
\* capacity violation for that member when the member's capacity is positive,
\* and the generic not-selected reason when the member's capacity is 0 (the
\* member is skipped before any task is looked at).
C6_CapacityRejection ==
    AfterSelection =>
        \A mid \in MemberIds :
            TopPreAssignedTooBig(mid) =>
                LET top == TopOf(PreAssignedTo(mid)) IN
                /\ SelectedFor(mid) = <<>>
                /\ CountOf(selected_tasks, top) = 0
                /\ CountOf(deferred_tasks, top) = 1
                /\ member_capacities[mid] > 0 =>
                      \E k \in DOMAIN deferred_tasks :
                          /\ deferred_tasks[k].taskId = top
                          /\ deferred_tasks[k].reason.kind = "CapacityViolation"
                          /\ deferred_tasks[k].reason.member = mid
                /\ member_capacities[mid] <= 0 => DeferredAs(top, "NotSelectedAssigned")

\* C6 witness: a finished run in which a member of positive capacity had its
\* top pre-assigned task rejected for capacity while an unassigned task that
\* fits the member's capacity was left unselected
C6_Witness ==
    /\ pc = "done"
    /\ \E mid \in MemberIds :
          /\ member_capacities[mid] > 0
          /\ TopPreAssignedTooBig(mid)
          /\ DeferredAs(TopOf(PreAssignedTo(mid)), "CapacityViolation")
          /\ \E k \in DOMAIN deferred_tasks :
                /\ deferred_tasks[k].reason.kind = "NotSelectedUnassigned"
                /\ SpecEffort(deferred_tasks[k].taskId) * HourUnits <= member_capacities[mid]

\* the case of C7: one member of positive capacity with a limit of one task,
\* and two or more eligible tasks, all unassigned, each within the member's
\* capacity and within the fairness threshold of an unassigned task (the fair
\* share plus twice the slack)
C7_Case ==
    /\ Len(members) = 1
    /\ Len(eligible_tasks) >= 2
    /\ \A mid \in MemberIds :
          /\ member_capacities[mid] > 0
          /\ effective_max_tasks[mid] = 1
          /\ \A tid \in Range(eligible_tasks) :
                /\ TaskById(tid).assignedTo = None
                /\ SpecEffort(tid) * HourUnits <= member_capacities[mid]
                /\ SpecEffort(tid) * HourUnits
                       <= member_fair_share_hours[mid] * CentiUnits + 2 * 2 * HourUnits

\* C7: in that case exactly one task is selected, the one with the highest
\* priority score (the earliest in input order among equal scores), and every
\* other eligible task has one deferred entry, with the generic not-selected
\* reason.
C7_SingleBestTask ==
    (AfterSelection /\ C7_Case) =>
        /\ Len(selected_tasks) = 1
        /\ selected_tasks[1].taskId = TopOf(eligible_tasks)
        /\ \A tid \in Range(eligible_tasks) \ {TopOf(eligible_tasks)} :
              /\ CountOf(deferred_tasks, tid) = 1
              /\ DeferredAs(tid, "NotSelectedUnassigned")

\* C7 witness: a finished run of that case in which two tasks share the
\* highest score and the earlier one was selected
C7_Witness ==
    /\ pc = "done"
    /\ C7_Case
    /\ Len(selected_tasks) = 1
    /\ \E i, j \in DOMAIN eligible_tasks :
          /\ i < j
          /\ eligible_tasks[i] = selected_tasks[1].taskId
          /\ TaskById(eligible_tasks[i])._priority_score
                 = TaskById(eligible_tasks[j])._priority_score
          /\ DeferredAs(eligible_tasks[j], "NotSelectedUnassigned")

\* the part of a returned plan the planner computes (everything but the
\* summary text)
PlannedPart(plan) ==
    [selectedTasks |-> plan.selectedTasks, deferredTasks |-> plan.deferredTasks,
     capacity |-> plan.capacity, fairnessReport |-> plan.fairnessReport,
     riskAnalysis |-> plan.riskAnalysis, sprintRiskScore |-> plan.sprintRiskScore,
     predictedVelocity |-> plan.predictedVelocity,
     memberWorkloadSummary |-> plan.memberWorkloadSummary,
     totalEffort |-> plan.totalEffort]

\* C8: two runs on identical members, tasks, sprint configuration and start
\* date return the same plan: the same selected and deferred entries in the
\* same order and the same capacity, fairness and risk figures.
C8_SamePlanTwice ==
    \A p, q \in DOMAIN plans : PlannedPart(plans[p]) = PlannedPart(plans[q])

\* the fair-share hours have been computed
FairnessComputed == pc \in {"member_loop", "analyze", "summary", "done"}

\* C9: if members A and B have the same availabilityFactor, overloadRiskScore
\* and capacity, and A has strictly higher reliabilityScore and strictly
\* higher velocity than B, then A's fair-share hours are at least B's.
C9_FairnessMonotone ==
    FairnessComputed =>
        \A i, j \in DOMAIN members :
            LET A == members[i]
                B == members[j]
            IN  (/\ A.availabilityFactor = B.availabilityFactor
                 /\ A.overloadRiskScore = B.overloadRiskScore
                 /\ member_capacities[A.projectMemberId] = member_capacities[B.projectMemberId]
                 /\ A.reliabilityScore > B.reliabilityScore
                 /\ A.velocity > B.velocity)
                => member_fair_share_hours[A.projectMemberId]
                       >= member_fair_share_hours[B.projectMemberId]

\* C10: the fair-share hours of the members sum to the sum of the members'
\* stored (floored at 0) sprint capacities, up to the rounding of each
\* member's share (half a hundredth of an hour per member).
C10_FairSharesSumToCapacity ==
    FairnessComputed =>
        LET shares == SumSeq([i \in DOMAIN members |->
                         member_fair_share_hours[members[i].projectMemberId] * CentiUnits])
            stored == SumSeq([i \in DOMAIN members |->
                         member_capacities[members[i].projectMemberId]])
            diff == IF shares >= stored THEN shares - stored ELSE stored - shares
        IN  2 * diff <= Len(members) * CentiUnits

\* C11: when the summarizer fails (it returns its fallback or raises), the
\* plan is still returned with success = true, with a fallback aiSummary, and
\* with an aiConfidence that is zero or reduced, that is, below full
\* confidence; every run ends with a returned plan.
C11_SummarizerFailureTolerated ==
    /\ pc = "done" => plans # <<>>
    /\ \A p \in DOMAIN plans :
          plans[p].aiSummary.kind # "ai" =>
              /\ plans[p].success
              /\ plans[p].aiSummary.kind \in {"fallback", "minimal"}
              /\ plans[p].aiConfidence < 100

\* C12: with an empty member list or an empty task list the request is
\* rejected: planning never returns a plan for it.
C12_EmptyInputRejected ==
    (members = <<>> \/ tasks = <<>>) => plans = <<>>

\* the selected and deferred lists, the capacities and the trackers of a
\* planner
Trackers(f) ==
    [total_team_capacity |-> f.total_team_capacity,
     member_capacities |-> f.member_capacities,
     effective_max_tasks |-> f.effective_max_tasks,
     member_current_load |-> f.member_current_load,
     member_task_count |-> f.member_task_count,
     member_fairness_score |-> f.member_fairness_score,
     member_fair_share_hours |-> f.member_fair_share_hours,
     selected_tasks |-> f.selected_tasks,
     deferred_tasks |-> f.deferred_tasks]

\* C13: two requests planned on their own copies of the records, interleaved
\* in any order, each end with the selected and deferred lists, capacities
\* and trackers they have when planned alone.
C13_InterleavedAsAlone ==
    Len(parked) = 3 =>
        \A f \in {Frame, parked[3]} :
            f.pc \in {"summary", "done"} =>
                \E alone \in {parked[1], parked[2]} :
                    /\ alone.sprint_config = f.sprint_config
                    /\ Trackers(f) = Trackers(alone)

\* one planner has finished planning while the other is suspended in the
\* middle of the member loop with a task already selected
C13_Witness ==
    /\ Len(parked) = 3
    /\ pc = "summary"
    /\ selected_tasks # <<>>
    /\ parked[3].pc = "member_loop"
    /\ parked[3].selected_tasks # <<>>
    /\ parked[3].member_index <= Len(parked[3].sorted_members)

\* C14: every entry appended to deferred_tasks, by the eligibility filter,
\* by a capacity or fairness rejection in the member loop or by the final
\* sweep, carries a non-empty reason string.
C14_DeferredHasReason ==
    \A k \in DOMAIN deferred_tasks : ReasonText(deferred_tasks[k].reason) # ""

\* a finished run whose deferred list has an entry of the filter, one of the
\* member loop and one of the sweep
C14_Witness ==
    /\ pc = "done"
    /\ \E k \in DOMAIN deferred_tasks :
          deferred_tasks[k].reason.kind \in {"BlockedByDependency", "UnknownMember"}
    /\ \E k \in DOMAIN deferred_tasks :
          deferred_tasks[k].reason.kind \in
              {"CapacityViolation", "FairnessLimit", "FairnessLimitUnassigned"}
    /\ \E k \in DOMAIN deferred_tasks :
          deferred_tasks[k].reason.kind \in {"NotSelectedAssigned", "NotSelectedUnassigned"}

\* C15: whenever a member's candidate is rejected because the member's
\* remaining capacity is less than the task's corrected effort, the task is
\* deferred with the capacity reason citing that remaining capacity and that
\* effort, whether the candidate came from the member's bucket or from the
\* unassigned pool.  (Every such rejection leaves its reason among the
\* recommendations.)
C15_CapacityRejectionDeferred ==
    \A r \in DOMAIN recommendations :
        recommendations[r].kind = "CapacityViolation" =>
            \E k \in DOMAIN deferred_tasks :
                deferred_tasks[k].reason = recommendations[r]

\* the candidate the specification gives the member: the highest-priority
\* task still available in the member's pre-assigned bucket, and if there is
\* none the highest-priority task still available in the unassigned pool
StillAvailable(list) == SelectSeq(list, LAMBDA t : t \notin selected_task_ids)

SpecCandidate(mid) ==
    IF StillAvailable(PreAssignedTo(mid)) # <<>>
    THEN <<TopOf(StillAvailable(PreAssignedTo(mid)))>>
    ELSE IF StillAvailable(PreAssignedTo(None)) # <<>>
    THEN <<TopOf(StillAvailable(PreAssignedTo(None)))>>
    ELSE <<>>

\* fair-share hours + 2.0 for a task pre-assigned to the member, + 4.0 for a
\* task of the unassigned pool, in 1/HourUnits hour
SpecFairnessBound(mid, tid) ==
    member_fair_share_hours[mid] * CentiUnits
        + (IF TaskById(tid).assignedTo = mid THEN 2 ELSE 4) * HourUnits

\* C16: every accepted assignment leaves the member's planned hours within
\* fair-share hours + 2.0 (task pre-assigned to the member) or + 4.0 (task of
\* the unassigned pool); a candidate that passes the capacity check and would
\* exceed its bound is deferred with a fairness reason and is not assigned to
\* the member.
C16_FairnessBound ==
    [][(pc = "member_loop" /\ member_index <= Len(sorted_members)
          /\ member_index' = member_index + 1) =>
        LET mid == sorted_members[member_index]
            accepted == SubSeq(selected_tasks', Len(selected_tasks) + 1, Len(selected_tasks'))
            deferred == SubSeq(deferred_tasks', Len(deferred_tasks) + 1, Len(deferred_tasks'))
            cand == SpecCandidate(mid)
        IN  /\ \A k \in DOMAIN accepted :
                  /\ accepted[k].assignedTo = mid
                  /\ member_current_load'[mid] <= SpecFairnessBound(mid, accepted[k].taskId)
            /\ (/\ member_capacities[mid] > 0
                /\ member_task_count[mid] < effective_max_tasks[mid]
                /\ cand # <<>>
                /\ SpecEffort(cand[1]) * HourUnits
                       <= member_capacities[mid] - member_current_load[mid]
                /\ member_current_load[mid] + SpecEffort(cand[1]) * HourUnits
                       > SpecFairnessBound(mid, cand[1]))
               => /\ accepted = <<>>
                  /\ Len(deferred) = 1
                  /\ deferred[1].taskId = cand[1]
                  /\ deferred[1].reason.kind \in {"FairnessLimit", "FairnessLimitUnassigned"}
                  /\ deferred[1].reason.member = mid]_vars

\* a finished run in which a candidate that fitted the member's capacity was
\* deferred for fairness and a task was accepted
C16_Witness ==
    /\ pc = "done"
    /\ \E k \in DOMAIN deferred_tasks :
          /\ deferred_tasks[k].reason.kind \in {"FairnessLimit", "FairnessLimitUnassigned"}
          /\ deferred_tasks[k].reason.planned_after
                 <= member_capacities[deferred_tasks[k].reason.member]
    /\ selected_tasks # <<>>

\* the attempts the member loop has recorded for the member: a selected
\* entry, a fairness or capacity entry of the deferred list, or a capacity
\* text among the recommendations for a task left undeferred
AttemptsOf(mid) ==
    Len(SelectedFor(mid))
    + Cardinality({k \in DOMAIN deferred_tasks :
                      /\ deferred_tasks[k].reason.kind \in
                             {"FairnessLimit", "FairnessLimitUnassigned"}
                      /\ deferred_tasks[k].reason.member = mid})
    + Cardinality({k \in DOMAIN recommendations :
                      /\ recommendations[k].kind = "CapacityViolation"
                      /\ recommendations[k].member = mid})

\* C17: the selection loop is one pass over the ordered member list: each
\* member is visited once and makes at most one attempt, so no member ends
\* with more than one selected task, and a member's selected-task count never
\* exceeds effectiveMaxTasks, which is the caller's override if positive and
\* 1 otherwise.
C17_OnePass ==
    /\ pc = "member_loop" => member_index <= Len(members) + 1
    /\ Len(sorted_members) <= Len(members)
    /\ \A i \in DOMAIN members :
          LET mid == members[i].projectMemberId
          IN  /\ AttemptsOf(mid) <= 1
              /\ Len(SelectedFor(mid)) <= 1
              /\ member_task_count[mid] = Len(SelectedFor(mid))
              /\ effective_max_tasks # <<>> =>
                    /\ effective_max_tasks[mid] =
                           (IF sprint_config.max_tasks_per_member # <<>>
                               /\ sprint_config.max_tasks_per_member[1] > 0
                            THEN sprint_config.max_tasks_per_member[1] ELSE 1)
                    /\ member_task_count[mid] <= effective_max_tasks[mid]

\* a finished run in which a member allowed two tasks has one, and a task it
\* had the capacity and the fairness slack for is left to the sweep
C17_Witness ==
    /\ pc = "done"
    /\ \E i \in DOMAIN members :
          LET mid == members[i].projectMemberId
          IN  /\ effective_max_tasks[mid] = 2
              /\ Len(SelectedFor(mid)) = 1
              /\ \E k \in DOMAIN deferred_tasks :
                    /\ deferred_tasks[k].reason.kind = "NotSelectedUnassigned"
                    /\ member_current_load[mid]
                           + SpecEffort(deferred_tasks[k].taskId) * HourUnits
                         <= member_capacities[mid]
                    /\ member_current_load[mid]
                           + SpecEffort(deferred_tasks[k].taskId) * HourUnits
                         <= member_fair_share_hours[mid] * CentiUnits + 4 * HourUnits

\* the tasks of the list the member loop neither selected nor rejected
LeftToSweep(list) ==
    SelectSeq(list, LAMBDA t :
        DeferredAs(t, "NotSelectedAssigned") \/ DeferredAs(t, "NotSelectedUnassigned"))

\* the member's candidate among the tasks left when the pass has ended
NextCandidate(mid) ==
    IF LeftToSweep(PreAssignedTo(mid)) # <<>>
    THEN <<TopOf(LeftToSweep(PreAssignedTo(mid)))>>
    ELSE IF LeftToSweep(PreAssignedTo(None)) # <<>>
    THEN <<TopOf(LeftToSweep(PreAssignedTo(None)))>>
    ELSE <<>>

\* C18: when effectiveMaxTasks > 1 the member pass is repeated until no
\* member can accept any more task or no eligible task remains: at the end of
\* a run no member below its task limit is left with a candidate that fits
\* its remaining capacity and its fairness bound.
C18_RepeatedUntilSaturated ==
    pc = "done" =>
        \A i \in DOMAIN members :
            LET mid == members[i].projectMemberId
                cand == NextCandidate(mid)
            IN  (/\ effective_max_tasks[mid] > 1
                 /\ member_capacities[mid] > 0
                 /\ member_task_count[mid] < effective_max_tasks[mid]
                 /\ cand # <<>>)
                => \/ SpecEffort(cand[1]) * HourUnits
                          > member_capacities[mid] - member_current_load[mid]
                   \/ member_current_load[mid] + SpecEffort(cand[1]) * HourUnits
                          > SpecFairnessBound(mid, cand[1])

\* the position of the member in the input
InputPosition(mid) == CHOOSE i \in DOMAIN members : members[i].projectMemberId = mid

\* the member at input position i comes before the one at position j:
\* higher reliabilityScore, or the same and higher availabilityFactor, or the
\* same on both and earlier in the input
SpecBefore(i, j) ==
    \/ members[i].reliabilityScore > members[j].reliabilityScore
    \/ /\ members[i].reliabilityScore = members[j].reliabilityScore
       /\ members[i].availabilityFactor > members[j].availabilityFactor
    \/ /\ members[i].reliabilityScore = members[j].reliabilityScore
       /\ members[i].availabilityFactor = members[j].availabilityFactor
       /\ i < j

\* the member took its turn on the task and rejected it
RejectedBy(mid, tid) ==
    \/ \E k \in DOMAIN recommendations :
          /\ recommendations[k].kind = "CapacityViolation"
          /\ recommendations[k].member = mid
    \/ \E k \in DOMAIN deferred_tasks :
          /\ deferred_tasks[k].taskId = tid
          /\ deferred_tasks[k].reason.kind = "FairnessLimitUnassigned"
          /\ deferred_tasks[k].reason.member = mid

\* C19: the member loop visits the members in descending order of
\* (reliabilityScore, availabilityFactor), members equal on both in input
\* order; so the top unassigned task is offered first to the earliest member
\* of this order: a later member has it only if every earlier member had no
\* capacity, had a task of its own bucket to consider, or rejected it.
C19_VisitOrder ==
    FairnessComputed =>
        /\ Len(sorted_members) = Len(members)
        /\ \A k, l \in DOMAIN sorted_members :
              k < l => SpecBefore(InputPosition(sorted_members[k]),
                                  InputPosition(sorted_members[l]))
        /\ \A k, l \in DOMAIN selected_tasks :
              k < l => SpecBefore(InputPosition(selected_tasks[k].assignedTo),
                                  InputPosition(selected_tasks[l].assignedTo))
        /\ PreAssignedTo(None) # <<>> =>
              LET top == TopOf(PreAssignedTo(None))
              IN  \A e \in Range(selected_tasks) :
                      e.taskId = top =>
                          \A i \in DOMAIN members :
                              SpecBefore(i, InputPosition(e.assignedTo)) =>
                                  LET a == members[i].projectMemberId
                                  IN  \/ member_capacities[a] <= 0
                                      \/ PreAssignedTo(a) # <<>>
                                      \/ RejectedBy(a, top)

\* a finished run with two members of equal reliabilityScore, both with
\* capacity and neither with a task of its own, in which the second member of
\* the input has the higher availabilityFactor and took the top unassigned
\* task
C19_Witness ==
    /\ pc = "done"
    /\ PreAssignedTo(None) # <<>>
    /\ \E i, j \in DOMAIN members :
          /\ i < j
          /\ members[i].reliabilityScore = members[j].reliabilityScore
          /\ members[i].availabilityFactor < members[j].availabilityFactor
          /\ member_capacities[members[i].projectMemberId] > 0
          /\ PreAssignedTo(members[i].projectMemberId) = <<>>
          /\ PreAssignedTo(members[j].projectMemberId) = <<>>
          /\ \E e \in Range(selected_tasks) :
                /\ e.taskId = TopOf(PreAssignedTo(None))
                /\ e.assignedTo = members[j].projectMemberId
          /\ SelectedFor(members[i].projectMemberId) # <<>>

\* C20: the task a member considers is the highest-score task not yet
\* selected of the member's own pre-assigned bucket, and a task of the
\* unassigned pool only when that bucket has none; so a task pre-assigned to
\* a member is never selected with another assignee.
C20_CandidateFromOwnBucket ==
    [][(pc = "member_loop" /\ member_index <= Len(sorted_members)
          /\ member_index' = member_index + 1) =>
        LET mid == sorted_members[member_index]
            accepted == SubSeq(selected_tasks', Len(selected_tasks) + 1, Len(selected_tasks'))
            deferred == SubSeq(deferred_tasks', Len(deferred_tasks) + 1, Len(deferred_tasks'))
            cand == SpecCandidate(mid)
        IN  /\ \A k \in DOMAIN accepted :
                  /\ cand # <<>>
                  /\ accepted[k].taskId = cand[1]
                  /\ accepted[k].assignedTo = mid
            /\ \A k \in DOMAIN deferred :
                  /\ cand # <<>>
                  /\ deferred[k].taskId = cand[1]
            /\ \A e \in Range(selected_tasks') :
                  TaskById(e.taskId).assignedTo \in {None, e.assignedTo}]_vars

\* a finished run in which a member holds a task of its own bucket while a
\* task of the unassigned pool with a higher score is left unselected
C20_Witness ==
    /\ pc = "done"
    /\ \E e \in Range(selected_tasks) :
          /\ TaskById(e.taskId).assignedTo = e.assignedTo
          /\ \E t \in Range(PreAssignedTo(None)) :
                /\ TaskById(t)._priority_score > TaskById(e.taskId)._priority_score
                /\ t \notin selected_task_ids

\* the tasks at positions i and j are identical in every field of the
\* request but the id and the priority
TwinTasks(i, j) ==
    /\ i # j
    /\ tasks[i].status = tasks[j].status
    /\ tasks[i].estimatedHours = tasks[j].estimatedHours
    /\ tasks[i].assignedTo = tasks[j].assignedTo
    /\ tasks[i].dependencies = tasks[j].dependencies
    /\ tasks[i].deadline = tasks[j].deadline

\* both tasks have been scored
Scored(i, j) ==
    /\ FairnessComputed
    /\ tasks[i].taskId \in Range(eligible_tasks)
    /\ tasks[j].taskId \in Range(eligible_tasks)

\* C21: a task whose priority is not one of Low, Medium, High, Critical is
\* scored exactly as a Medium task with otherwise identical fields.
C21_UnknownPriorityAsMedium ==
    \A i, j \in DOMAIN tasks :
        (/\ TwinTasks(i, j)
         /\ Scored(i, j)
         /\ tasks[i].priority \notin {"Low", "Medium", "High", "Critical"}
         /\ tasks[j].priority = "Medium")
        => tasks[i]._priority_score = tasks[j]._priority_score

\* the rank of the four priority levels
PriorityLevel(priority) ==
    CASE priority = "Critical" -> 4
      [] priority = "High" -> 3
      [] priority = "Medium" -> 2
      [] priority = "Low" -> 1
      [] OTHER -> 0

\* the position of the task id in the sorted unassigned pool
PoolPosition(tid) == CHOOSE k \in DOMAIN unassigned_tasks : unassigned_tasks[k] = tid

\* C22: for two tasks identical in every other field the score of the task
\* with the higher priority level (Critical > High > Medium > Low) is at
\* least the score of the other, and the Critical task is never sorted behind
\* an otherwise identical High, Medium or Low task.
C22_ScoreMonotoneInPriority ==
    \A i, j \in DOMAIN tasks :
        (/\ TwinTasks(i, j)
         /\ Scored(i, j)
         /\ PriorityLevel(tasks[j].priority) >= 1
         /\ PriorityLevel(tasks[i].priority) > PriorityLevel(tasks[j].priority))
        => /\ tasks[i]._priority_score >= tasks[j]._priority_score
           /\ tasks[i].priority = "Critical" =>
                  PoolPosition(tasks[i].taskId) < PoolPosition(tasks[j].taskId)

\* C23: when the team's total velocity is zero the team-average velocity is
\* taken as 1.0, so every member's velocity term is 0 and the raw fairness
\* score is reliabilityScore * 0.35 + (1 - overloadRiskScore) * 0.15
\* + availabilityFactor * 0.15 (here in ten-thousandths, as it is stored).
C23_ZeroVelocityFairness ==
    (FairnessComputed /\ SumVelocity(members) = 0) =>
        \A i \in DOMAIN members :
            member_fairness_score[members[i].projectMemberId] =
                RoundDiv(Max(0, members[i].reliabilityScore * 35
                                + (FactorDen - members[i].overloadRiskScore) * 15
                                + members[i].availabilityFactor * 15) * 100,
                         FactorDen)

\* the risk analysis has been made
Analyzed == pc \in {"summary", "done"}

\* C24: the risk analysis reports as critical dependencies exactly the
\* dependency ids referenced by a selected task that are not themselves
\* among the selected tasks.
C24_CriticalDependencies ==
    Analyzed =>
        Range(risk_analysis.criticalDependencies) =
            {dep \in UNION {Range(TaskById(selected_tasks[k].taskId).dependencies) :
                               k \in DOMAIN selected_tasks} :
                dep \notin selected_task_ids}

\* C25: the summarizer's HTTP call is attempted at most max_retries (3)
\* times; a successful attempt returns with no further attempt; after each
\* failed attempt but the last the caller waits a delay that starts at 1 and
\* doubles (1, 2); after the last failed attempt the error is raised with no
\* further wait, and generate_sprint_summary returns the fallback summary.
C25_BoundedRetries ==
    /\ fetch.posts <= 3
    /\ fetch.sleeps \in {<<>>, <<1>>, <<1, 2>>}
    /\ fetch.state = "returned" => fetch.posts = Len(fetch.sleeps) + 1
    /\ fetch.state = "sleeping" => fetch.posts = Len(fetch.sleeps) + 1 /\ fetch.posts < 3
    /\ fetch.state = "attempting" => fetch.posts = Len(fetch.sleeps)
    /\ fetch.state = "raised" => fetch.posts = 3 /\ fetch.sleeps = <<1, 2>>
    /\ (pc = "done" /\ fetch.state = "raised") =>
          /\ plans # <<>>
          /\ plans[Len(plans)].success
          /\ plans[Len(plans)].aiSummary.kind = "fallback"

\* a finished run whose three attempts all failed
C25_Witness ==
    /\ pc = "done"
    /\ fetch.state = "raised"
    /\ fetch.posts = 3
    /\ fetch.sleeps = <<1, 2>>
    /\ plans[Len(plans)].aiSummary.kind = "fallback"

\* the list `after` begins with the whole of `before`
KeepsAndExtends(before, after) ==
    /\ Len(before) <= Len(after)
    /\ SubSeq(after, 1, Len(before)) = before

\* capacity calculation, filtering, selection and risk analysis have all run
FourStepsCompleted ==
    /\ DOMAIN member_capacities = MemberIds
    /\ \A i \in DOMAIN tasks :
          tasks[i].status \in {"Backlog", "Open"} =>
              \/ \E k \in DOMAIN eligible_tasks : eligible_tasks[k] = tasks[i].taskId
              \/ \E d \in DOMAIN deferred_tasks : deferred_tasks[d].taskId = tasks[i].taskId
    /\ member_index > Len(sorted_members)
    /\ \A k \in DOMAIN eligible_tasks :
          \/ eligible_tasks[k] \in selected_task_ids
          \/ \E d \in DOMAIN deferred_tasks :
                deferred_tasks[d].taskId = eligible_tasks[k]
    /\ risk_analysis # <<>>
    /\ kpis # <<>>

\* the planner's results at the call of the summarizer
PlannedResults ==
    <<selected_tasks, deferred_tasks, total_team_capacity, member_capacities,
      risk_analysis, kpis, member_current_load, member_task_count,
      member_fairness_score, member_normalized_fair_share, member_fair_share_hours>>

DistinctDeferred == Cardinality({deferred_tasks[k].taskId : k \in DOMAIN deferred_tasks})

\* C27: the sprint risk score is min(40, 2 x deferred tasks)
\* + min(30, 5 x critical dependencies) + min(20, 7 x overloaded members)
\* + min(10, 5 x deadline threats), the deferred tasks counted once each,
\* and lies in 0..100.
C27_SprintRiskScore ==
    Analyzed =>
        /\ kpis.sprintRiskScore =
               Min(40, 2 * DistinctDeferred)
               + Min(30, 5 * Cardinality(Range(risk_analysis.criticalDependencies)))
               + Min(20, 7 * Cardinality(Range(risk_analysis.overloadedMembers)))
               + Min(10, 5 * Cardinality(Range(risk_analysis.deadlineThreats)))
        /\ kpis.sprintRiskScore \in 0..100

\* the greatest nesting level at which the current call expanded an id
DeepestExpansion ==
    IF traversal.expanded = <<>> THEN 0
    ELSE CHOOSE n \in {traversal.expanded[k].level : k \in DOMAIN traversal.expanded} :
             \A k \in DOMAIN traversal.expanded : traversal.expanded[k].level <= n

\* some task of the list depends on itself, and some two tasks on each other
HasSelfDependency ==
    \E i \in DOMAIN tasks :
        \E k \in DOMAIN tasks[i].dependencies : tasks[i].dependencies[k] = tasks[i].taskId

HasTwoCycle ==
    \E i, j \in DOMAIN tasks :
        /\ i # j
        /\ \E k \in DOMAIN tasks[i].dependencies : tasks[i].dependencies[k] = tasks[j].taskId
        /\ \E k \in DOMAIN tasks[j].dependencies : tasks[j].dependencies[k] = tasks[i].taskId

\* C28: on every dependency graph, cycles and self-dependencies included,
\* a call of the dependency depth returns; during one top-level call no id
\* is expanded twice, and an id met again adds nothing: the depth returned is
\* the deepest nesting at which an id was expanded for the first time.
C28_DepthTerminates ==
    /\ [](/\ \A j, k \in DOMAIN traversal.expanded :
                j # k => traversal.expanded[j].id # traversal.expanded[k].id
          /\ Len(traversal.stack) <= Len(tasks)
          /\ (traversal.state = "idle" /\ traversal.results # <<>>) =>
                /\ traversal.results[Len(traversal.results)] = DeepestExpansion
                /\ \A k \in DOMAIN traversal.results :
                      traversal.results[k] =
                          _dependency_depth(tasks, GetTask(tasks, eligible_tasks[k])))
    /\ (traversal.state = "running") ~> (traversal.state = "idle")

\* a call that has returned depth 3 on a graph with a self-dependency and a
\* cycle of two tasks, every task of the graph expanded
C28_Witness ==
    /\ traversal.state = "idle"
    /\ traversal.results = <<3>>
    /\ HasSelfDependency
    /\ HasTwoCycle
    /\ Len(traversal.expanded) = 3

\* the ids the task tid lists as dependencies; an id no task has lists none
DepsOf(tid) ==
    IF HasTask(tasks, tid) THEN Range(GetTask(tasks, tid).dependencies) ELSE {}

\* the ids reached from the ids of S by at most n further dependency edges
RECURSIVE Descendants(_, _)
Descendants(S, n) ==
    IF n = 0 THEN S ELSE Descendants(S \cup UNION {DepsOf(t) : t \in S}, n - 1)

\* no task depends, directly or through other tasks, on itself
Acyclic ==
    \A i \in DOMAIN tasks :
        tasks[i].taskId \notin Descendants(DepsOf(tasks[i].taskId), Len(tasks))

\* the number of edges of the longest chain of dependencies that starts at
\* tid (defined on acyclic graphs)
RECURSIVE LongestChain(_)
LongestChain(tid) ==
    IF DepsOf(tid) = {} THEN 0
    ELSE LET chains == {LongestChain(d) : d \in DepsOf(tid)}
         IN  1 + CHOOSE n \in chains : \A c \in chains : c <= n

\* C29: on an acyclic dependency graph the depth returned for a task is the
\* length of the longest chain of dependencies starting at the task, in
\* whatever order the dependency ids are listed, diamonds included.
C29_DepthIsLongestChain ==
    (Acyclic /\ traversal.state = "idle") =>
        \A k \in DOMAIN traversal.results :
            traversal.results[k] = LongestChain(eligible_tasks[k])

\* the entries of a selected list assigned to the member mid, and their hours
EntriesOf(selected, mid) == SelectSeq(selected, LAMBDA e : e.assignedTo = mid)

HoursOf(selected) == SumSeq([k \in DOMAIN selected |-> selected[k].estimatedHours])

\* C30: at every step member_current_load[m] is the sum of the estimatedHours
\* of the selected entries assigned to m and member_task_count[m] their
\* number; no task id is selected twice; and in every plan returned the
\* fairness report's plannedHours, the workload summary's taskCount and
\* totalEstimatedHours and totalEffort are those of selectedTasks.
C30_TrackersAgreeWithSelected ==
    /\ \A mid \in MemberIds :
          /\ member_current_load[mid] = HoursOf(EntriesOf(selected_tasks, mid)) * HourUnits
          /\ member_task_count[mid] = Len(EntriesOf(selected_tasks, mid))
    /\ \A j, k \in DOMAIN selected_tasks :
          j # k => selected_tasks[j].taskId # selected_tasks[k].taskId
    /\ \A p \in DOMAIN plans :
          LET plan == plans[p]
          IN  /\ \A i \in DOMAIN plan.fairnessReport :
                    plan.fairnessReport[i].plannedHours =
                        10 * HoursOf(EntriesOf(plan.selectedTasks,
                                               plan.fairnessReport[i].projectMemberId))
              /\ \A i \in DOMAIN plan.memberWorkloadSummary :
                    LET mine == EntriesOf(plan.selectedTasks,
                                          plan.memberWorkloadSummary[i].memberId)
                    IN  /\ plan.memberWorkloadSummary[i].taskCount = Len(mine)
                        /\ plan.memberWorkloadSummary[i].totalEstimatedHours = HoursOf(mine)
              /\ plan.totalEffort = HoursOf(plan.selectedTasks)
              /\ plan.totalEffort =
                     SumSeq([i \in DOMAIN plan.memberWorkloadSummary |->
                                plan.memberWorkloadSummary[i].totalEstimatedHours])
              /\ \A j, k \in DOMAIN plan.selectedTasks :
                    j # k => plan.selectedTasks[j].taskId # plan.selectedTasks[k].taskId

\* a plan returned with one task selected for each of two members, the two
\* tasks of different effort
C30_Witness ==
    /\ pc = "done"
    /\ plans # <<>>
    /\ Len(selected_tasks) = 2
    /\ selected_tasks[1].assignedTo # selected_tasks[2].assignedTo
    /\ selected_tasks[1].estimatedHours # selected_tasks[2].estimatedHours
    /\ selected_tasks[1].estimatedHours > 0
    /\ selected_tasks[2].estimatedHours > 0

====
